---- MODULE Spec2Model ----
(***************************************************************************)
(* Meal-plan scheduling and replacement engine of the meal-plan page       *)
(* (MealPlanPage): createPlan, pickRecipe, pickAlternativeRecipe,          *)
(* replaceSlot, dislikeAndReplace, setSlotRecipe, updateServings,          *)
(* toggleFavorite, blockIngredientFromSlot and handleUndo.                 *)
(*                                                                         *)
(* Dates are day indexes relative to the plan's start date:                *)
(* addDaysISO(startDate, k) is k and diffDaysISO(a, b) is a - b.  Recipe   *)
(* names are sequences of letters (small integers), compared               *)
(* lexicographically.  The null recipe_id is NoRecipe.                     *)
(***************************************************************************)
EXTENDS Integers, Sequences, FiniteSets, TLC

\* ---------------------------------------------------------------- bounds
MaxDays == 3
MaxSpan == 2
MaxCooldown == 2
MaxPeople == 2
MaxOps == 3
MaxFaults == 1
MaxUndoOps == 33
MaxCalls == 2
MaxPantryIngredients == 2
MaxQty == 3
MaxTransferQty == 2
MaxPantryOps == 4

\* ------------------------------------------------------ program constants
NoRecipe == 0
TopK == 3
UndoCap == 30
MinQueryLen == 2
MaxCandidates == 10

MealTypes == {"breakfast", "lunch", "dinner"}

\* ------------------------------------------------- reference data (catalog)
\* recipes, in the order of the loaded array
recipes ==
  << [id |-> 1, name |-> <<2, 1, 2>>, meal_type |-> "breakfast"],
     [id |-> 2, name |-> <<1, 2, 2>>, meal_type |-> "breakfast"],
     [id |-> 3, name |-> <<1, 1, 2>>, meal_type |-> "breakfast"],
     [id |-> 4, name |-> <<1, 2, 2>>, meal_type |-> "breakfast"],
     [id |-> 5, name |-> <<3, 1, 2>>, meal_type |-> "lunch"],
     [id |-> 6, name |-> <<1, 2, 3>>, meal_type |-> "lunch"],
     [id |-> 7, name |-> <<2, 1, 3>>, meal_type |-> "lunch"],
     [id |-> 8, name |-> <<3, 3>>, meal_type |-> "dinner"],
     [id |-> 9, name |-> <<2, 1>>, meal_type |-> "dinner"] >>

RecipeIds == {recipes[i].id : i \in 1..Len(recipes)}

Ingredients == {1, 2, 3}

\* recipeIngSetByRecipe: the ingredient set of each recipe (recipe 4 has no rows)
recipeIngSetByRecipe ==
  [r \in RecipeIds |->
     CASE r = 1 -> {1}
       [] r = 2 -> {1, 2}
       [] r = 3 -> {2}
       [] r = 4 -> {}
       [] r = 5 -> {1}
       [] r = 6 -> {2}
       [] r = 7 -> {1, 2}
       [] r = 8 -> {3}
       [] r = 9 -> {2, 3}]

RecipeById(rid) == CHOOSE r \in {recipes[i] : i \in 1..Len(recipes)} : r.id = rid

VARIABLES
  \* form
  daysCount, people, lunchSpanDays, cooldownDays,
  selectedIngredientIds, useIngredientIdsHard, preferPantry,
  \* loaded data
  pantryIds, prefs, blockedIngredientIds,
  history,
  \* createPlan: position and locals
  pc, day, cd, hasBlocked, blockedMiss, queues, usedGlobal, newSlots,
  \* active plan
  slots, replacePool, undoStack,
  \* observers
  blockedToasts, opCount, faults, lastOp, prevOp, lastPick, slotsBefore, slotsBefore2,
  dislikedByReplace,
  \* observers of the replace pools
  offered, drawers, drawn, otherEdits, lastOffer,
  \* the undo stack, the blocked set and the preferences before the last handler call
  undoBefore, blockedBefore, prefsBefore,
  \* the number of handler calls a session is followed for
  opLimit,
  \* the meal_plan_slots rows stored for the plan that createPlan inserted
  planRows,
  \* whether the meal_plans row of the current run of createPlan is stored
  planRecord,
  \* the slots with a replacement in flight, the replacement calls awaiting their
  \* write, the dislikeAndReplace calls awaiting setPreference, the last call started
  swappingSlotIds, pending, prefPending, lastStart,
  \* the shopping list page: the user_pantry rows, the pantry map of the page, its
  \* undo stack; the calls made, the last call, the stored and the local pantry
  \* before the last successful transfer, and whether only attempts to undo that
  \* transfer followed it
  pantryDb, pantry, shopUndoStack, shopOps, lastShop, preTransferDb, preTransferLocal, direct,
  \* the entry of an undo whose inverse write is awaited, the undo stack when that
  \* undo began, and the entries pushed while it was awaited
  undoInFlight, undoStart, undoNewer

formVars == <<daysCount, people, lunchSpanDays, cooldownDays,
              selectedIngredientIds, useIngredientIdsHard, preferPantry, pantryIds, history,
              opLimit>>
cpVars == <<pc, day, cd, hasBlocked, blockedMiss, queues, usedGlobal, newSlots, planRows,
            planRecord>>
planVars == <<slots, replacePool, undoStack>>
obsVars == <<blockedToasts, opCount, faults, lastOp, prevOp, lastPick, slotsBefore, slotsBefore2,
            dislikedByReplace>>
poolObs == <<offered, drawers, drawn, otherEdits, lastOffer>>
editObs == <<undoBefore, blockedBefore, prefsBefore>>
swapVars == <<swappingSlotIds, pending, prefPending, lastStart>>
shopVars == <<pantryDb, pantry, shopUndoStack, shopOps, lastShop, preTransferDb,
              preTransferLocal, direct>>
flightVars == <<undoInFlight, undoStart, undoNewer>>
mealVars == <<formVars, flightVars, prefs, blockedIngredientIds, cpVars, planVars, obsVars, poolObs,
              editObs, swapVars>>
vars == <<mealVars, shopVars>>

Min(a, b) == IF a < b THEN a ELSE b
Abs(x) == IF x < 0 THEN -x ELSE x

\* ------------------------------------------------------------- helpers
dislikedIds == {r \in RecipeIds : prefs[r] = "dislike"}

desiredIdsSet == selectedIngredientIds

recipeContainsBlocked_ignoring(recipeId) == FALSE

recipeContainsBlocked(recipeId) ==
  IF blockedIngredientIds = {} THEN FALSE
  ELSE recipeIngSetByRecipe[recipeId] \cap blockedIngredientIds # {}

\* score of a recipe as the fraction ScoreNum / ScoreDen (in hundredths)
IngCount(recipeId) == Cardinality(recipeIngSetByRecipe[recipeId])
ScoreDen(recipeId) ==
  (IF IngCount(recipeId) = 0 THEN 1 ELSE IngCount(recipeId))
  * (IF desiredIdsSet = {} THEN 1 ELSE Cardinality(desiredIdsSet))

\* matchRatio = have / size, 0 for a recipe without ingredients
matchRatioNum(recipeId) == Cardinality(recipeIngSetByRecipe[recipeId] \cap pantryIds)

bonusFromPrefs(recipeId) ==
  IF prefs[recipeId] = "favorite" THEN 15
  ELSE IF prefs[recipeId] = "dislike" THEN -99900
  ELSE 0

recipeHasAllDesired(recipeId, desired) == desired \subseteq recipeIngSetByRecipe[recipeId]

desiredMatchNum(recipeId, desired) == Cardinality(desired \cap recipeIngSetByRecipe[recipeId])

ScoreNum(recipeId) ==
  LET sz == IF IngCount(recipeId) = 0 THEN 1 ELSE IngCount(recipeId)
      ds == IF desiredIdsSet = {} THEN 1 ELSE Cardinality(desiredIdsSet)
  IN (IF preferPantry THEN 100 * matchRatioNum(recipeId) * ds ELSE 0)
     + bonusFromPrefs(recipeId) * sz * ds
     + 35 * desiredMatchNum(recipeId, desiredIdsSet) * sz

RECURSIVE localeCompareLess(_, _)
localeCompareLess(a, b) ==
  IF a = <<>> THEN b # <<>>
  ELSE IF b = <<>> THEN FALSE
  ELSE IF a[1] # b[1] THEN a[1] < b[1]
  ELSE localeCompareLess(Tail(a), Tail(b))

\* the comparator of the ranking: higher score first, then name ascending
RankBefore(a, b) ==
  LET sa == ScoreNum(a.id) * ScoreDen(b.id)
      sb == ScoreNum(b.id) * ScoreDen(a.id)
  IN IF sb # sa THEN sa > sb ELSE localeCompareLess(a.name, b.name)

RECURSIVE RankInsert(_, _)
RankInsert(x, s) ==
  IF s = <<>> THEN <<x>>
  ELSE IF RankBefore(x, Head(s)) THEN <<x>> \o s
  ELSE <<Head(s)>> \o RankInsert(x, Tail(s))

\* Array.prototype.sort (stable) with the ranking comparator
RECURSIVE RankSort(_)
RankSort(s) ==
  IF s = <<>> THEN <<>>
  ELSE RankInsert(s[Len(s)], RankSort(SubSeq(s, 1, Len(s) - 1)))

SeqIds(s) == {s[i].id : i \in 1..Len(s)}

\* ------------------------------------------------------ cooldown helpers
pruneQueue_inclusive(queue, currentDayIndex, cdv) ==
  IF cdv <= 0 THEN queue
  ELSE SelectSeq(queue, LAMBDA e : e.dayIndex >= currentDayIndex - cdv)

pruneQueue(queue, currentDayIndex, cdv) ==
  IF cdv <= 0 THEN queue
  ELSE SelectSeq(queue, LAMBDA e : e.dayIndex > currentDayIndex - cdv)

queueToSet(queue) == {queue[i].recipeId : i \in 1..Len(queue)}

\* ----------------------------------------------------------- pickRecipe
hardFilter_always(base) ==
  IF useIngredientIdsHard /\ desiredIdsSet # {}
  THEN SelectSeq(base, LAMBDA r : recipeHasAllDesired(r.id, desiredIdsSet))
  ELSE base

\* hard desired-ingredient mode: the recipes with all desired ingredients, if
\* there is one among the eligible recipes, otherwise all eligible recipes
hardFilter(base) ==
  LET desired == desiredIdsSet
      hard == useIngredientIdsHard /\ desired # {}
      strict == SelectSeq(base, LAMBDA r : recipeHasAllDesired(r.id, desired))
  IN IF hard /\ Len(strict) > 0 THEN strict ELSE base

pickRecipeBase_noFallback(mealType, used, extraExclude) ==
  SelectSeq(recipes, LAMBDA r :
              /\ r.meal_type = mealType
              /\ r.id \notin used
              /\ r.id \notin dislikedIds
              /\ r.id \notin extraExclude
              /\ ~recipeContainsBlocked(r.id))

pickRecipeBase_fallbackDropsUsed(mealType, used, extraExclude) ==
  LET strictBase == SelectSeq(recipes, LAMBDA r :
                      /\ r.meal_type = mealType
                      /\ r.id \notin used
                      /\ r.id \notin dislikedIds
                      /\ r.id \notin extraExclude
                      /\ ~recipeContainsBlocked(r.id))
  IN IF Len(strictBase) = 0
     THEN SelectSeq(recipes, LAMBDA r :
                      /\ r.meal_type = mealType
                      /\ r.id \notin dislikedIds
                      /\ ~recipeContainsBlocked(r.id))
     ELSE strictBase

\* the candidate list before the random draw; <<>> when nothing is eligible
pickRecipeBase(mealType, used, extraExclude) ==
  LET strictBase == SelectSeq(recipes, LAMBDA r :
                      /\ r.meal_type = mealType
                      /\ r.id \notin used
                      /\ r.id \notin dislikedIds
                      /\ r.id \notin extraExclude
                      /\ ~recipeContainsBlocked(r.id))
  IN IF Len(strictBase) = 0
     THEN SelectSeq(recipes, LAMBDA r :
                      /\ r.meal_type = mealType
                      /\ r.id \notin used
                      /\ r.id \notin dislikedIds
                      /\ ~recipeContainsBlocked(r.id))
     ELSE strictBase

\* the set of ids pickRecipe can return (Math.random picks one of the top TopK)
pickRecipe(mealType, used, extraExclude) ==
  LET desired == desiredIdsSet
      hard == useIngredientIdsHard /\ desired # {}
      base == pickRecipeBase(mealType, used, extraExclude)
  IN IF Len(base) = 0 THEN {NoRecipe}
     ELSE LET candidates == hardFilter(base)
              sorted == RankSort(candidates)
              top == SubSeq(sorted, 1, Min(TopK, Len(sorted)))
          IN SeqIds(top)

\* ------------------------------------------------------------ createPlan
Slot(date, mealType, rid, servings) ==
  [date |-> date, meal_type |-> mealType, recipe_id |-> rid, servings |-> servings]

NoPick == [fn |-> "none", mealType |-> "none", day |-> 0, used |-> {}, cooldown |-> {},
           disliked |-> {}, blocked |-> {}, current |-> NoRecipe, stored |-> <<>>,
           result |-> NoRecipe]

\* the last call of pickRecipe or pickAlternativeRecipe: its arguments, the
\* disliked and blocked sets and the stored pool as of the call, and its result
PickObs(fn, mealType, dayIndex, used, cooldown, disliked, current, stored, result) ==
  [fn |-> fn, mealType |-> mealType, day |-> dayIndex, used |-> used, cooldown |-> cooldown,
   disliked |-> disliked, blocked |-> blockedIngredientIds,
   current |-> current, stored |-> stored, result |-> result]

NoOp == [kind |-> "none", ok |-> FALSE, slot |-> 0, ids |-> {}, prev |-> NoRecipe, next |-> NoRecipe]

\* what the last handler did: its kind, whether it succeeded, the target slot id,
\* the slot ids it wrote, and the recipe ids before and after
OpObs(kind, ok, slot, ids, prev, next) ==
  [kind |-> kind, ok |-> ok, slot |-> slot, ids |-> ids, prev |-> prev, next |-> next]

\* the history query of createPlan and the seeding of the queues
RECURSIVE SeedQueue(_, _, _)
SeedQueue(hist, mealType, cdv) ==
  IF hist = <<>> THEN <<>>
  ELSE LET row == Head(hist)
           rest == SeedQueue(Tail(hist), mealType, cdv)
           dist == 0 - row.date
       IN IF /\ row.date >= 0 - cdv
             /\ row.date < 0
             /\ row.servings > 0
             /\ row.recipe_id # NoRecipe
             /\ row.meal_type = mealType
             /\ dist > 0
          THEN <<[dayIndex |-> 0 - dist, recipeId |-> row.recipe_id]>> \o rest
          ELSE rest

\* the insert into meal_plans stores the plan row unless it is refused
planInserted(ok) == ok

\* createPlan up to the insert of the plan row
CreatePlanStart(ok) ==
  /\ pc = "idle"
  /\ LET cdv == IF cooldownDays > 0 THEN cooldownDays ELSE 0
     IN /\ cd' = cdv
        /\ queues' = [mt \in MealTypes |-> IF cdv > 0 THEN SeedQueue(history, mt, cdv) ELSE <<>>]
  /\ hasBlocked' = (blockedIngredientIds # {})
  /\ blockedMiss' = FALSE
  /\ blockedToasts' = 0
  /\ usedGlobal' = {}
  /\ newSlots' = <<>>
  /\ planRows' = <<>>
  /\ planRecord' = planInserted(ok)
  /\ day' = 0
  /\ pc' = IF ok THEN "breakfast" ELSE "idle"
  /\ lastOp' = OpObs("createPlanStart", ok, 0, {}, NoRecipe, NoRecipe)
  /\ UNCHANGED <<formVars, flightVars, swapVars, shopVars, prefs, blockedIngredientIds, planVars,
                 opCount, faults, prevOp, lastPick, slotsBefore, slotsBefore2, dislikedByReplace,
                 poolObs, editObs>>

newSlotsFor_leftoverUnset(mealType, rid, servings, leftoverDays) ==
  <<Slot(day, mealType, rid, servings)>>
    \o [k \in 1..leftoverDays |-> Slot(day + k, mealType, NoRecipe, 0)]

\* the slots pushed for one pick: the cook slot and its leftover slots
newSlotsFor(mealType, rid, servings, leftoverDays) ==
  <<Slot(day, mealType, rid, servings)>>
    \o [k \in 1..leftoverDays |-> Slot(day + k, mealType, rid, 0)]

\* one pick of the fill loop: prune the queue, pick, record, push the slots
FillPick(mealType, servings, leftoverDays) ==
  LET q == pruneQueue(queues[mealType], day, cd)
      cooldownExclude == IF cd > 0 THEN queueToSet(q) ELSE {}
  IN \E rid \in pickRecipe(mealType, usedGlobal, cooldownExclude) :
       /\ blockedMiss' = (blockedMiss \/ (rid = NoRecipe /\ hasBlocked))
       /\ usedGlobal' = IF rid # NoRecipe THEN usedGlobal \cup {rid} ELSE usedGlobal
       /\ queues' = [queues EXCEPT ![mealType] =
                       IF rid # NoRecipe
                       THEN Append(q, [dayIndex |-> day, recipeId |-> rid])
                       ELSE q]
       /\ newSlots' = newSlots \o newSlotsFor(mealType, rid, servings, leftoverDays)
       /\ lastPick' = PickObs("pickRecipe", mealType, day, usedGlobal, cooldownExclude,
                              dislikedIds, NoRecipe, <<>>, rid)

FillBreakfast ==
  /\ pc = "breakfast"
  /\ FillPick("breakfast", people, 0)
  /\ pc' = "lunch"
  /\ UNCHANGED <<formVars, flightVars, swapVars, shopVars, prefs, blockedIngredientIds, planVars, day, cd, hasBlocked,
                 blockedToasts, opCount, faults, lastOp, prevOp, slotsBefore, slotsBefore2,
                 dislikedByReplace, poolObs, editObs, planRows, planRecord>>

LeftoverDays_uncapped == lunchSpanDays - 1

\* number of leftover slots after the cook slot of this day
LeftoverDays == Min(lunchSpanDays - 1, daysCount - 1 - day)

LunchCookServings_remainingDays == people * (1 + LeftoverDays)

\* servings of the cook slot of a lunch batch
LunchCookServings == people * lunchSpanDays

FillLunch ==
  /\ pc = "lunch"
  /\ IF lunchSpanDays <= 1
     THEN FillPick("lunch", people, 0)
     ELSE IF day % lunchSpanDays = 0
          THEN FillPick("lunch", LunchCookServings, LeftoverDays)
          ELSE UNCHANGED <<blockedMiss, usedGlobal, queues, newSlots, lastPick>>
  /\ pc' = "dinner"
  /\ UNCHANGED <<formVars, flightVars, swapVars, shopVars, prefs, blockedIngredientIds, planVars, day, cd, hasBlocked,
                 blockedToasts, opCount, faults, lastOp, prevOp, slotsBefore, slotsBefore2,
                 dislikedByReplace, poolObs, editObs, planRows, planRecord>>

FillDinner ==
  /\ pc = "dinner"
  /\ FillPick("dinner", people, 0)
  /\ day' = day + 1
  /\ pc' = IF day + 1 < daysCount THEN "breakfast" ELSE "insert"
  /\ UNCHANGED <<formVars, flightVars, swapVars, shopVars, prefs, blockedIngredientIds, planVars, cd, hasBlocked,
                 blockedToasts, opCount, faults, lastOp, prevOp, slotsBefore, slotsBefore2,
                 dislikedByReplace, poolObs, editObs, planRows, planRecord>>

WithIds(s) == [i \in 1..Len(s) |->
                 [id |-> i, date |-> s[i].date, meal_type |-> s[i].meal_type,
                  recipe_id |-> s[i].recipe_id, servings |-> s[i].servings]]

EmptyPools == [mt \in MealTypes |-> <<>>]

batchInsert_rowByRow(ok, rows) == IF ok THEN rows ELSE SubSeq(rows, 1, Len(rows) - 1)

\* one insert statement carries all rows: it stores all of them or none
batchInsert(ok, rows) == IF ok THEN rows ELSE <<>>

\* the end of createPlan: the single toast, the batch insert and the refresh
CreatePlanFinish(ok) ==
  /\ pc = "insert"
  /\ planRows' = batchInsert(ok, newSlots)
  /\ blockedToasts' = IF blockedMiss /\ hasBlocked THEN blockedToasts + 1 ELSE blockedToasts
  /\ IF ok
     THEN /\ slots' = WithIds(newSlots)
          /\ replacePool' = EmptyPools
          /\ offered' = [i \in 1..Len(newSlots) |-> {newSlots[i].recipe_id}]
          /\ pc' = "done"
     ELSE /\ UNCHANGED <<slots, replacePool, offered>>
          /\ pc' = "idle"
  /\ lastOp' = OpObs("createPlan", ok, 0, {}, NoRecipe, NoRecipe)
  /\ UNCHANGED <<formVars, flightVars, swapVars, shopVars, prefs, blockedIngredientIds, undoStack,
                 day, cd, hasBlocked, blockedMiss, queues, usedGlobal, newSlots, planRecord,
                 opCount, faults, prevOp, lastPick, slotsBefore, slotsBefore2, dislikedByReplace,
                 drawers, drawn, otherEdits, lastOffer, editObs>>

\* ------------------------------------------------ pickAlternativeRecipe
SeqToSet(s) == {s[i] : i \in 1..Len(s)}

\* shuffleNumbers: every permutation of the values can come out
shuffleNumbers(values) ==
  {[i \in 1..Len(values) |-> values[f[i]]] : f \in Permutations(1..Len(values))}

alternativeCandidates_ignoresDisliked(mealType, currentRecipeId, excludeRecipeIds, cooldownExclude, disliked) ==
  RankSort(SelectSeq(recipes, LAMBDA r :
             /\ r.meal_type = mealType
             /\ r.id # currentRecipeId
             /\ r.id \notin excludeRecipeIds
             /\ ~recipeContainsBlocked(r.id)))

\* the ranked candidate list of pickAlternativeRecipe; <<>> when nothing is eligible
alternativeCandidates(mealType, currentRecipeId, excludeRecipeIds, cooldownExclude, disliked) ==
  LET desired == desiredIdsSet
      hard == useIngredientIdsHard /\ desired # {}
      strictBase == SelectSeq(recipes, LAMBDA r :
                      /\ r.meal_type = mealType
                      /\ r.id # currentRecipeId
                      /\ r.id \notin excludeRecipeIds
                      /\ r.id \notin disliked
                      /\ r.id \notin cooldownExclude
                      /\ ~recipeContainsBlocked(r.id))
      base == IF Len(strictBase) = 0
              THEN SelectSeq(recipes, LAMBDA r :
                      /\ r.meal_type = mealType
                      /\ r.id # currentRecipeId
                      /\ r.id \notin excludeRecipeIds
                      /\ r.id \notin disliked
                      /\ ~recipeContainsBlocked(r.id))
              ELSE strictBase
      candidates == hardFilter(base)
  IN RankSort(candidates)

poolsFor_alwaysShuffles(stored, candidateIds) == shuffleNumbers(candidateIds)

poolsFor_unfiltered(stored, candidateIds) ==
  IF Len(stored) = 0 THEN shuffleNumbers(candidateIds) ELSE {stored}

\* the pool the next recipe is taken from: the stored pool restricted to the
\* current candidates, or a fresh shuffle when nothing of it is left
poolsFor(stored, candidateIds) ==
  LET pool == SelectSeq(stored, LAMBDA id : id \in SeqToSet(candidateIds))
  IN IF Len(pool) = 0 THEN shuffleNumbers(candidateIds) ELSE {pool}

\* the outcomes of pickAlternativeRecipe: the recipe returned and the pool left
pickAlternativeRecipe(mealType, currentRecipeId, excludeRecipeIds, cooldownExclude, disliked) ==
  LET ranked == alternativeCandidates(mealType, currentRecipeId, excludeRecipeIds,
                                      cooldownExclude, disliked)
      candidateIds == [i \in 1..Len(ranked) |-> ranked[i].id]
  IN IF Len(ranked) = 0
     THEN {[rid |-> NoRecipe, pool |-> replacePool[mealType]]}
     ELSE {[rid |-> p[1], pool |-> Tail(p)] : p \in poolsFor(replacePool[mealType], candidateIds)}

\* --------------------------------------------------------- slot helpers
SlotSet == {slots[i] : i \in 1..Len(slots)}

\* slot ids are the positions of the inserted batch
SlotById(id) == slots[id]

getCooldownExcludeForSlot_earlierOnly(slot) ==
  IF cooldownDays <= 0 THEN {}
  ELSE {s.recipe_id : s \in {t \in SlotSet :
                               /\ t.recipe_id # NoRecipe
                               /\ t.servings > 0
                               /\ t.meal_type = slot.meal_type
                               /\ t.id # slot.id
                               /\ t.date < slot.date
                               /\ slot.date - t.date < cooldownDays}}

getCooldownExcludeForSlot(slot) ==
  IF cooldownDays <= 0 THEN {}
  ELSE {s.recipe_id : s \in {t \in SlotSet :
                               /\ t.recipe_id # NoRecipe
                               /\ t.servings > 0
                               /\ t.meal_type = slot.meal_type
                               /\ t.id # slot.id
                               /\ Abs(t.date - slot.date) < cooldownDays}}

usedExcept_otherMealTypes(slot) ==
  {s.recipe_id : s \in {t \in SlotSet : /\ t.recipe_id # NoRecipe
                                        /\ t.servings > 0
                                        /\ t.meal_type # slot.meal_type}}
    \ {slot.recipe_id}

\* the recipes of the cook slots, without the recipe of the slot itself
usedExcept(slot) ==
  {s.recipe_id : s \in {t \in SlotSet : t.recipe_id # NoRecipe /\ t.servings > 0}}
    \ {slot.recipe_id}

RECURSIVE DateInsert(_, _)
DateInsert(x, s) ==
  IF s = <<>> THEN <<x>>
  ELSE IF x.date < Head(s).date THEN <<x>> \o s
  ELSE <<Head(s)>> \o DateInsert(x, Tail(s))

\* [...slots].sort by date (stable)
RECURSIVE DateSort(_)
DateSort(s) ==
  IF s = <<>> THEN <<>>
  ELSE DateInsert(s[Len(s)], DateSort(SubSeq(s, 1, Len(s) - 1)))

\* the loop of getLunchBlockSlotIdsToReplace from position i on
RECURSIVE LunchRun(_, _, _)
LunchRun(sorted, i, oldRid) ==
  IF i > Len(sorted) THEN <<>>
  ELSE IF sorted[i].meal_type # "lunch" THEN LunchRun(sorted, i + 1, oldRid)
  ELSE IF sorted[i].recipe_id # oldRid THEN <<>>
  ELSE IF sorted[i].servings # 0 THEN <<>>
  ELSE <<sorted[i].id>> \o LunchRun(sorted, i + 1, oldRid)

getLunchBlockSlotIdsToReplace_targetOnly(target) == <<target.id>>

getLunchBlockSlotIdsToReplace(target) ==
  IF target.recipe_id = NoRecipe THEN <<target.id>>
  ELSE LET sorted == DateSort(slots)
           idx == CHOOSE i \in 1..Len(sorted) : sorted[i].id = target.id
       IN <<target.id>> \o LunchRun(sorted, idx + 1, target.recipe_id)

slotIdsToUpdateFor(slot) ==
  IF slot.meal_type = "lunch" THEN getLunchBlockSlotIdsToReplace(slot) ELSE <<slot.id>>

\* setSlots(prev.map(...)): the listed slots get the recipe
WithRecipe(ids, rid) ==
  [i \in 1..Len(slots) |->
     IF slots[i].id \in SeqToSet(ids) THEN [slots[i] EXCEPT !.recipe_id = rid] ELSE slots[i]]

\* ------------------------------------------------------------- undo log
SwapEntry_swapped(ids, prev, next) ==
  [type |-> "swap", slotIds |-> ids, prevRecipeId |-> next, nextRecipeId |-> prev,
   ingredientId |-> 0]

SwapEntry(ids, prev, next) ==
  [type |-> "swap", slotIds |-> ids, prevRecipeId |-> prev, nextRecipeId |-> next,
   ingredientId |-> 0]

BlockEntry(ingredientId) ==
  [type |-> "blockIngredient", slotIds |-> <<>>, prevRecipeId |-> NoRecipe,
   nextRecipeId |-> NoRecipe, ingredientId |-> ingredientId]

LastN_keepsOldest(s, n) == IF Len(s) <= n THEN s ELSE SubSeq(s, 1, n)

\* slice(-UndoCap)
LastN(s, n) == IF Len(s) <= n THEN s ELSE SubSeq(s, Len(s) - n + 1, Len(s))

pushUndoAction(stack, action) == LastN(Append(stack, action), UndoCap)

\* --------------------------------------------------------- edit handlers
CanEdit == pc = "done" /\ opCount < opLimit

\* a write to the store may fail, at most MaxFaults times in a session
WriteResults == IF faults < MaxFaults THEN BOOLEAN ELSE {TRUE}

NoStart == [slot |-> 0, entry |-> "none", wasSwapping |-> FALSE]

NoOffer == [slot |-> 0, repeat |-> FALSE, unseen |-> {}, fromStored |-> FALSE, again |-> FALSE]

\* the record of a handler call: the call itself, the slots before it, the
\* recipes each slot has held so far, and for a draw from a replace pool: who
\* drew, whether the slot had held the recipe before, the candidates of the
\* call the slot has not held yet, whether the stored pool still had a
\* candidate (no reshuffle), and whether the recipe had already been drawn
\* since the last reshuffle
Observe(op) ==
  /\ lastOp' = op
  /\ prevOp' = lastOp
  /\ opCount' = opCount + 1
  /\ slotsBefore' = slots
  /\ slotsBefore2' = slotsBefore
  /\ undoBefore' = undoStack
  /\ blockedBefore' = blockedIngredientIds
  /\ prefsBefore' = prefs
  /\ otherEdits' = (otherEdits \/ op.kind # "replaceSlot")
  /\ offered' = [i \in 1..Len(offered) |->
                   IF op.ok /\ i \in op.ids THEN offered[i] \cup {op.next} ELSE offered[i]]
  /\ IF op.kind \in {"replaceSlot", "dislikeAndReplace"} /\ op.next # NoRecipe
     THEN LET slot == slots[op.slot]
              candidates == SeqIds(alternativeCandidates(slot.meal_type, slot.recipe_id,
                                     usedExcept(slot), getCooldownExcludeForSlot(slot),
                                     dislikedIds \cup {slot.recipe_id}))
              fromStored == \E k \in 1..Len(replacePool[slot.meal_type]) :
                              replacePool[slot.meal_type][k] \in candidates
          IN /\ drawers' = [drawers EXCEPT ![slot.meal_type] =
                              @ \cup {IF op.ok /\ op.kind = "replaceSlot" THEN op.slot ELSE 0}]
             /\ drawn' = [drawn EXCEPT ![slot.meal_type] =
                            IF fromStored THEN @ \cup {op.next} ELSE {op.next}]
             /\ lastOffer' = [slot |-> op.slot, repeat |-> op.next \in offered[op.slot],
                              unseen |-> candidates \ offered[op.slot],
                              fromStored |-> fromStored,
                              again |-> fromStored /\ op.next \in drawn[slot.meal_type]]
     ELSE /\ UNCHANGED <<drawers, drawn>>
          /\ lastOffer' = NoOffer

slotsAfterWrite_optimistic(ok, ids, rid) == WithRecipe(ids, rid)

\* setSlots runs only below the early return taken when the update failed
slotsAfterWrite(ok, ids, rid) == IF ok THEN WithRecipe(ids, rid) ELSE slots

\* the body of replaceSlot after its guards
ReplaceBody(slot, disliked, kind) ==
  LET used == usedExcept(slot)
      cooldownExclude == getCooldownExcludeForSlot(slot)
  IN \E out \in pickAlternativeRecipe(slot.meal_type, slot.recipe_id, used,
                                      cooldownExclude, disliked) :
       /\ replacePool' = [replacePool EXCEPT ![slot.meal_type] = out.pool]
       /\ lastPick' = PickObs("pickAlternativeRecipe", slot.meal_type, slot.date, used,
                              cooldownExclude, disliked, slot.recipe_id,
                              replacePool[slot.meal_type], out.rid)
       /\ IF out.rid = NoRecipe
          THEN /\ UNCHANGED <<slots, undoStack, faults>>
               /\ Observe(OpObs(kind, FALSE, slot.id, {}, slot.recipe_id, NoRecipe))
          ELSE \E ok \in WriteResults :
                 LET slotIdsToUpdate == slotIdsToUpdateFor(slot)
                 IN IF ok
                    THEN /\ slots' = slotsAfterWrite(TRUE, slotIdsToUpdate, out.rid)
                         /\ UNCHANGED faults
                         /\ undoStack' = pushUndoAction(undoStack,
                                           SwapEntry(slotIdsToUpdate, slot.recipe_id, out.rid))
                         /\ Observe(OpObs(kind, TRUE, slot.id, SeqToSet(slotIdsToUpdate),
                                          slot.recipe_id, out.rid))
                    ELSE /\ slots' = slotsAfterWrite(FALSE, slotIdsToUpdate, out.rid)
                         /\ UNCHANGED undoStack
                         /\ faults' = faults + 1
                         /\ Observe(OpObs(kind, FALSE, slot.id, {}, slot.recipe_id, out.rid))

replaceSlot(id) ==
  /\ CanEdit
  /\ id \in 1..Len(slots)
  /\ LET slot == SlotById(id)
     IN /\ slot.recipe_id # NoRecipe
        /\ slot.servings # 0
        /\ ReplaceBody(slot, dislikedIds, "replaceSlot")
  /\ UNCHANGED <<formVars, flightVars, swapVars, shopVars, prefs, blockedIngredientIds, cpVars, blockedToasts, dislikedByReplace>>

dislikeAndReplace(id) ==
  /\ CanEdit
  /\ id \in 1..Len(slots)
  /\ LET slot == SlotById(id)
     IN /\ slot.recipe_id # NoRecipe
        /\ slot.servings # 0
        /\ prefs' = [prefs EXCEPT ![slot.recipe_id] = "dislike"]
        /\ dislikedByReplace' = dislikedByReplace \cup {slot.recipe_id}
        /\ ReplaceBody(slot, dislikedIds \cup {slot.recipe_id}, "dislikeAndReplace")
  /\ UNCHANGED <<formVars, flightVars, swapVars, shopVars, blockedIngredientIds, cpVars, blockedToasts>>

\* setPreference changes the map first; a refused write is only logged
toggleFavorite(id, ok) ==
  /\ CanEdit
  /\ ok \in WriteResults
  /\ faults' = IF ok THEN faults ELSE faults + 1
  /\ id \in 1..Len(slots)
  /\ LET slot == SlotById(id)
     IN /\ slot.recipe_id # NoRecipe
        /\ slot.servings # 0
        /\ prefs' = [prefs EXCEPT ![slot.recipe_id] =
                       IF prefs[slot.recipe_id] = "favorite" THEN "none" ELSE "favorite"]
        /\ Observe(OpObs("toggleFavorite", ok, id, {}, slot.recipe_id, slot.recipe_id))
  /\ UNCHANGED <<formVars, flightVars, swapVars, shopVars, blockedIngredientIds, cpVars, planVars, blockedToasts,
                 lastPick, dislikedByReplace>>

\* commitServingsDraft + updateServings: the normalized value differs from the current
\* one; setSlots runs before the write, and a refused write is only logged
updateServings(id, servings, ok) ==
  /\ CanEdit
  /\ ok \in WriteResults
  /\ faults' = IF ok THEN faults ELSE faults + 1
  /\ id \in 1..Len(slots)
  /\ servings # SlotById(id).servings
  /\ slots' = [i \in 1..Len(slots) |->
                 IF slots[i].id = id THEN [slots[i] EXCEPT !.servings = servings] ELSE slots[i]]
  /\ Observe(OpObs("updateServings", ok, id, {id}, SlotById(id).recipe_id,
                   SlotById(id).recipe_id))
  /\ UNCHANGED <<formVars, flightVars, swapVars, shopVars, prefs, blockedIngredientIds, cpVars, replacePool, undoStack,
                 blockedToasts, lastPick, dislikedByReplace>>

\* name.includes(q)
Includes(name, q) ==
  \E i \in 1..(Len(name) - Len(q) + 1) : SubSeq(name, i, i + Len(q) - 1) = q

RECURSIVE NameInsert(_, _)
NameInsert(x, s) ==
  IF s = <<>> THEN <<x>>
  ELSE IF localeCompareLess(x.name, Head(s).name) THEN <<x>> \o s
  ELSE <<Head(s)>> \o NameInsert(x, Tail(s))

RECURSIVE NameSort(_)
NameSort(s) ==
  IF s = <<>> THEN <<>>
  ELSE NameInsert(s[Len(s)], NameSort(SubSeq(s, 1, Len(s) - 1)))

getRecipeCandidates(slot, q) ==
  IF Len(q) < MinQueryLen THEN <<>>
  ELSE LET used == usedExcept(slot)
           cooldownExclude == getCooldownExcludeForSlot(slot)
           hard == useIngredientIdsHard /\ desiredIdsSet # {}
           found == SelectSeq(recipes, LAMBDA r :
                      /\ r.meal_type = slot.meal_type
                      /\ Includes(r.name, q)
                      /\ r.id \notin used
                      /\ r.id \notin dislikedIds
                      /\ r.id \notin cooldownExclude
                      /\ ~recipeContainsBlocked(r.id))
           candidates == IF hard
                         THEN SelectSeq(found, LAMBDA r : recipeHasAllDesired(r.id, desiredIdsSet))
                         ELSE found
           sorted == NameSort(candidates)
       IN SubSeq(sorted, 1, Min(MaxCandidates, Len(sorted)))

\* the search texts tried: one letter (too short) and two pairs of letters
Queries == { <<1>>, <<1, 2>>, <<2, 1>> }

\* a recipe of the search panel is chosen for the slot
setSlotRecipe(id, q, ok) ==
  /\ CanEdit
  /\ ok \in WriteResults
  /\ faults' = IF ok THEN faults ELSE faults + 1
  /\ id \in 1..Len(slots)
  /\ LET slot == SlotById(id)
     IN /\ slot.servings # 0
        /\ \E recipeId \in SeqIds(getRecipeCandidates(slot, q)) :
             /\ slot.recipe_id # recipeId
             /\ LET slotIdsToUpdate == slotIdsToUpdateFor(slot)
                IN IF ok
                   THEN /\ slots' = slotsAfterWrite(TRUE, slotIdsToUpdate, recipeId)
                        /\ undoStack' = IF slot.recipe_id # NoRecipe
                                        THEN pushUndoAction(undoStack,
                                               SwapEntry(slotIdsToUpdate, slot.recipe_id, recipeId))
                                        ELSE undoStack
                        /\ Observe(OpObs("setSlotRecipe", TRUE, id, SeqToSet(slotIdsToUpdate),
                                         slot.recipe_id, recipeId))
                   ELSE /\ slots' = slotsAfterWrite(FALSE, slotIdsToUpdate, recipeId)
                        /\ UNCHANGED undoStack
                        /\ Observe(OpObs("setSlotRecipe", FALSE, id, {}, slot.recipe_id, recipeId))
  /\ UNCHANGED <<formVars, flightVars, swapVars, shopVars, prefs, blockedIngredientIds, cpVars, replacePool,
                 blockedToasts, lastPick, dislikedByReplace>>

\* the ingredients listed in the details of the slots
ShownIngredients ==
  UNION {recipeIngSetByRecipe[s.recipe_id] : s \in {t \in SlotSet : t.recipe_id # NoRecipe}}

blockIngredientFromSlot(ingredientId, ok) ==
  /\ CanEdit
  /\ ok \in WriteResults
  /\ faults' = IF ok THEN faults ELSE faults + 1
  /\ ingredientId \in ShownIngredients
  /\ ingredientId \notin blockedIngredientIds
  /\ IF ok
     THEN /\ blockedIngredientIds' = blockedIngredientIds \cup {ingredientId}
          /\ undoStack' = pushUndoAction(undoStack, BlockEntry(ingredientId))
     ELSE UNCHANGED <<blockedIngredientIds, undoStack>>
  /\ Observe(OpObs("blockIngredient", ok, 0, {}, NoRecipe, NoRecipe))
  /\ UNCHANGED <<formVars, flightVars, swapVars, shopVars, prefs, cpVars, slots, replacePool, blockedToasts,
                 lastPick, dislikedByReplace>>

restoreUndoEntry_dropped(popped, last) == popped

\* the catch branch of handleUndo puts the popped entry back on top
restoreUndoEntry(popped, last) == LastN(Append(popped, last), UndoCap)

handleUndo(ok) ==
  /\ CanEdit
  /\ ok \in WriteResults
  /\ faults' = IF ok THEN faults ELSE faults + 1
  /\ undoStack # <<>>
  /\ LET last == undoStack[Len(undoStack)]
         popped == SubSeq(undoStack, 1, Len(undoStack) - 1)
     IN /\ undoStack' = IF ok THEN popped ELSE restoreUndoEntry(popped, last)
        /\ slots' = IF ok /\ last.type = "swap"
                    THEN WithRecipe(last.slotIds, last.prevRecipeId)
                    ELSE slots
        /\ blockedIngredientIds' = IF ok /\ last.type = "blockIngredient"
                                   THEN blockedIngredientIds \ {last.ingredientId}
                                   ELSE blockedIngredientIds
        /\ Observe(OpObs(IF last.type = "swap" THEN "undoSwap" ELSE "undoBlock", ok, 0,
                         SeqToSet(last.slotIds), last.nextRecipeId, last.prevRecipeId))
  /\ UNCHANGED <<formVars, flightVars, swapVars, shopVars, prefs, cpVars, replacePool, blockedToasts, lastPick,
                 dislikedByReplace>>

\* ------------------------------------------- replacements in flight
\* what a finished handler call records
observed == <<opCount, lastOp, prevOp, slotsBefore, slotsBefore2, poolObs, editObs>>

Call(kind, entry, slot, used, cooldownExclude, disliked, ids, next) ==
  [kind |-> kind, entry |-> entry, slot |-> slot, used |-> used,
   cooldownExclude |-> cooldownExclude, disliked |-> disliked, ids |-> ids, next |-> next]

\* the handler calls started so far
Started == Len(pending) + Len(prefPending) + opCount

CanStart == pc = "done" /\ Started < opLimit

RemoveAt(s, k) == SubSeq(s, 1, k - 1) \o SubSeq(s, k + 1, Len(s))

Swipes == {"swipeLeft", "swipeRight"}

\* MealSlotRow: the buttons are disabled while the slot is swapping; the swipe
\* handlers test only slot && !isLeftovers
EntryEnabled(entry, slot) ==
  CASE entry \in Swipes -> slot.servings # 0
    [] entry = "searchResult" -> slot.servings # 0 /\ slot.id \notin swappingSlotIds
    [] OTHER -> /\ slot.recipe_id # NoRecipe
                /\ slot.servings # 0
                /\ slot.id \notin swappingSlotIds

\* replaceSlot from its guards to its await: the slot id enters swappingSlotIds,
\* the recipe is picked and the write is issued; without a candidate the call
\* ends at once
beginReplaceSlot(c) ==
  /\ c.slot.recipe_id # NoRecipe
  /\ c.slot.servings # 0
  /\ lastStart' = [slot |-> c.slot.id, entry |-> c.entry,
                   wasSwapping |-> c.slot.id \in swappingSlotIds]
  /\ \E out \in pickAlternativeRecipe(c.slot.meal_type, c.slot.recipe_id, c.used,
                                      c.cooldownExclude, c.disliked) :
       /\ replacePool' = [replacePool EXCEPT ![c.slot.meal_type] = out.pool]
       /\ lastPick' = PickObs("pickAlternativeRecipe", c.slot.meal_type, c.slot.date, c.used,
                              c.cooldownExclude, c.disliked, c.slot.recipe_id,
                              replacePool[c.slot.meal_type], out.rid)
       /\ IF out.rid = NoRecipe
          THEN /\ swappingSlotIds' = swappingSlotIds \ {c.slot.id}
               /\ pending' = pending
               /\ Observe(OpObs(c.kind, FALSE, c.slot.id, {}, c.slot.recipe_id, NoRecipe))
          ELSE /\ swappingSlotIds' = swappingSlotIds \cup {c.slot.id}
               /\ pending' = Append(pending, [c EXCEPT !.next = out.rid])
               /\ UNCHANGED observed

\* the replace button or a swipe to the left
startReplace(id, entry) ==
  /\ CanStart
  /\ id \in 1..Len(slots)
  /\ entry \in {"replaceButton", "swipeLeft"}
  /\ LET slot == SlotById(id)
     IN /\ EntryEnabled(entry, slot)
        /\ beginReplaceSlot(Call("replaceSlot", entry, slot, usedExcept(slot),
                                 getCooldownExcludeForSlot(slot), dislikedIds,
                                 slotIdsToUpdateFor(slot), NoRecipe))
  /\ UNCHANGED <<formVars, flightVars, shopVars, prefs, blockedIngredientIds, cpVars, slots, undoStack,
                 blockedToasts, faults, dislikedByReplace, prefPending>>

\* the dislike button or a swipe to the right: dislikeAndReplace up to the
\* await of setPreference
startDislike(id, entry) ==
  /\ CanStart
  /\ id \in 1..Len(slots)
  /\ entry \in {"dislikeButton", "swipeRight"}
  /\ LET slot == SlotById(id)
     IN /\ EntryEnabled(entry, slot)
        /\ slot.recipe_id # NoRecipe
        /\ prefs' = [prefs EXCEPT ![slot.recipe_id] = "dislike"]
        /\ dislikedByReplace' = dislikedByReplace \cup {slot.recipe_id}
        /\ prefPending' = Append(prefPending,
                            Call("dislikeAndReplace", entry, slot, usedExcept(slot),
                                 getCooldownExcludeForSlot(slot),
                                 dislikedIds \cup {slot.recipe_id},
                                 slotIdsToUpdateFor(slot), NoRecipe))
  /\ UNCHANGED <<formVars, flightVars, shopVars, blockedIngredientIds, cpVars, planVars, blockedToasts, faults,
                 lastPick, observed, swappingSlotIds, pending, lastStart>>

\* setPreference returned: dislikeAndReplace goes on with replaceSlot, which
\* works on the slot and the slot list of the render the call was started from
preferenceWritten(k) ==
  /\ pc = "done"
  /\ k \in 1..Len(prefPending)
  /\ prefPending' = RemoveAt(prefPending, k)
  /\ beginReplaceSlot(prefPending[k])
  /\ UNCHANGED <<formVars, flightVars, shopVars, prefs, blockedIngredientIds, cpVars, slots, undoStack,
                 blockedToasts, faults, dislikedByReplace>>

\* a recipe of the search panel is chosen: setSlotRecipe up to its await
selectSearchRecipe(id, q) ==
  /\ CanStart
  /\ id \in 1..Len(slots)
  /\ LET slot == SlotById(id)
     IN /\ EntryEnabled("searchResult", slot)
        /\ \E recipeId \in SeqIds(getRecipeCandidates(slot, q)) :
             /\ slot.recipe_id # recipeId
             /\ swappingSlotIds' = swappingSlotIds \cup {id}
             /\ lastStart' = [slot |-> id, entry |-> "searchResult",
                              wasSwapping |-> id \in swappingSlotIds]
             /\ pending' = Append(pending,
                             Call("setSlotRecipe", "searchResult", slot, {}, {}, {},
                                  slotIdsToUpdateFor(slot), recipeId))
  /\ UNCHANGED <<formVars, flightVars, shopVars, prefs, blockedIngredientIds, cpVars, planVars, blockedToasts,
                 faults, lastPick, dislikedByReplace, observed, prefPending>>

\* the write of a call in flight returns: replaceSlot or setSlotRecipe from the
\* await to the end of its finally block
finishReplacement(k, ok) ==
  /\ pc = "done"
  /\ k \in 1..Len(pending)
  /\ ok \in WriteResults
  /\ faults' = IF ok THEN faults ELSE faults + 1
  /\ LET c == pending[k]
     IN /\ pending' = RemoveAt(pending, k)
        /\ swappingSlotIds' = swappingSlotIds \ {c.slot.id}
        /\ slots' = slotsAfterWrite(ok, c.ids, c.next)
        /\ undoStack' = IF ok /\ c.slot.recipe_id # NoRecipe
                        THEN pushUndoAction(undoStack, SwapEntry(c.ids, c.slot.recipe_id, c.next))
                        ELSE undoStack
        /\ Observe(OpObs(c.kind, ok, c.slot.id, IF ok THEN SeqToSet(c.ids) ELSE {},
                         c.slot.recipe_id, c.next))
  /\ UNCHANGED <<formVars, flightVars, shopVars, prefs, blockedIngredientIds, cpVars, replacePool, blockedToasts,
                 lastPick, dislikedByReplace, prefPending, lastStart>>

\* handleUndo up to the await of its inverse write: the top entry is popped
beginUndo ==
  /\ pc = "done"
  /\ opCount < opLimit
  /\ undoInFlight = <<>>
  /\ undoStack # <<>>
  /\ undoInFlight' = <<undoStack[Len(undoStack)]>>
  /\ undoStart' = undoStack
  /\ undoNewer' = <<>>
  /\ undoStack' = SubSeq(undoStack, 1, Len(undoStack) - 1)
  /\ UNCHANGED <<formVars, shopVars, swapVars, prefs, blockedIngredientIds, cpVars, slots,
                 replacePool, obsVars, poolObs, editObs>>

\* the inverse write of the undo returns: handleUndo from the await to the end of
\* its finally block
finishUndo(ok) ==
  /\ pc = "done"
  /\ undoInFlight # <<>>
  /\ ok \in WriteResults
  /\ faults' = IF ok THEN faults ELSE faults + 1
  /\ LET last == undoInFlight[1]
         popped == Len(undoStart) - 1
     IN /\ undoStack' = IF ok THEN undoStack ELSE restoreUndoEntry(undoStack, last)
        /\ undoNewer' = SubSeq(undoStack, popped + 1, Len(undoStack))
        /\ slots' = IF ok /\ last.type = "swap"
                    THEN WithRecipe(last.slotIds, last.prevRecipeId)
                    ELSE slots
        /\ blockedIngredientIds' = IF ok /\ last.type = "blockIngredient"
                                   THEN blockedIngredientIds \ {last.ingredientId}
                                   ELSE blockedIngredientIds
        /\ Observe(OpObs(IF last.type = "swap" THEN "undoSwap" ELSE "undoBlock", ok, 0,
                         SeqToSet(last.slotIds), last.nextRecipeId, last.prevRecipeId))
  /\ undoInFlight' = <<>>
  /\ UNCHANGED <<formVars, shopVars, swapVars, undoStart, prefs, cpVars, replacePool,
                 blockedToasts, lastPick, dislikedByReplace>>

\* ------------------------------------------ shopping list: pantry transfer
PantryIngredients == 1..MaxPantryIngredients

\* a user_pantry row of an ingredient: absent, with quantity null, or with a quantity
NoRow == [exists |-> FALSE, isNull |-> FALSE, quantity |-> 0]
NullRow == [exists |-> TRUE, isNull |-> TRUE, quantity |-> 0]
QtyRow(q) == [exists |-> TRUE, isNull |-> FALSE, quantity |-> q]

\* addToPantry: the change computed from the row read from the store
PantryTransferChange(db, ingredientId, transferQty) ==
  LET existing == db[ingredientId]
      hadRowBefore == existing.exists
      prevIsNull == ~hadRowBefore \/ existing.isNull
      prevQty == IF prevIsNull THEN 0 ELSE existing.quantity
  IN [ingredientId |-> ingredientId, prevIsNull |-> prevIsNull, prevQty |-> prevQty,
      nextQty |-> prevQty + transferQty, hadRowBefore |-> hadRowBefore]

\* addToPantry: the update or insert, and the same for the pantry map
applyChange(m, c) == [m EXCEPT ![c.ingredientId] = QtyRow(c.nextQty)]

RECURSIVE addAll(_, _, _)
\* the first n calls of addToPantry of a transfer
addAll(db, items, n) ==
  IF n = 0 THEN [db |-> db, changes |-> <<>>]
  ELSE LET r == addAll(db, items, n - 1)
           c == PantryTransferChange(r.db, items[n].ingredientId, items[n].qty)
       IN [db |-> applyChange(r.db, c), changes |-> Append(r.changes, c)]

RECURSIVE applyFirst(_, _, _)
applyFirst(m, changes, n) ==
  IF n = 0 THEN m ELSE applyChange(applyFirst(m, changes, n - 1), changes[n])

undoChange_keepsRow(m, c) ==
  [m EXCEPT ![c.ingredientId] = IF c.prevIsNull THEN NullRow ELSE QtyRow(c.prevQty)]

\* handleUndo, pantryTransfer: the previous quantity is written back when a row
\* existed before the transfer, the row is deleted otherwise
undoChange(m, c) ==
  [m EXCEPT ![c.ingredientId] =
     IF c.hadRowBefore
     THEN IF c.prevIsNull THEN NullRow ELSE QtyRow(c.prevQty)
     ELSE NoRow]

RECURSIVE undoFirst(_, _, _)
\* the first n changes of an entry undone, in the order of the entry
undoFirst(m, changes, n) ==
  IF n = 0 THEN m ELSE undoChange(undoFirst(m, changes, n - 1), changes[n])

pushUndo(stack, action) == LastN(Append(stack, action), UndoCap)

\* the lists transferred: one ingredient, or several different ones
ItemLists ==
  { <<[ingredientId |-> i, qty |-> q]>> : i \in PantryIngredients, q \in 1..MaxTransferQty }
  \cup { <<[ingredientId |-> p[1], qty |-> 1], [ingredientId |-> p[2], qty |-> MaxTransferQty]>> :
           p \in {pp \in PantryIngredients \X PantryIngredients : pp[1] # pp[2]} }

NoShop == [kind |-> "none", ok |-> FALSE, changes |-> <<>>, direct |-> FALSE,
           dbBefore |-> [i \in PantryIngredients |-> NoRow],
           localBefore |-> [i \in PantryIngredients |-> NoRow], retry |-> FALSE]

ShopObs(kind, ok, changes) ==
  [kind |-> kind, ok |-> ok, changes |-> changes, direct |-> direct,
   dbBefore |-> pantryDb, localBefore |-> pantry,
   retry |-> lastShop.kind = "undo" /\ ~lastShop.ok /\ lastShop.dbBefore # pantryDb]

\* toggleBoughtAndTransfer, the "Do pantry" button and transferAllToPantry: one
\* addToPantry call per item; failAt = 0 if every call succeeds, otherwise the
\* call whose write is refused
transferToPantry(items, failAt) ==
  /\ shopOps < MaxPantryOps
  /\ items \in ItemLists
  /\ failAt \in 0..Len(items)
  /\ LET done == IF failAt = 0 THEN Len(items) ELSE failAt - 1
         r == addAll(pantryDb, items, done)
     IN /\ \A k \in 1..Len(r.changes) : r.changes[k].nextQty <= MaxQty
        /\ pantryDb' = r.db
        /\ pantry' = applyFirst(pantry, r.changes, done)
        /\ shopUndoStack' = IF failAt = 0
                            THEN pushUndo(shopUndoStack,
                                          [type |-> "pantryTransfer", changes |-> r.changes])
                            ELSE shopUndoStack
        /\ preTransferDb' = IF failAt = 0 THEN pantryDb ELSE preTransferDb
        /\ preTransferLocal' = IF failAt = 0 THEN pantry ELSE preTransferLocal
        /\ direct' = (failAt = 0)
        /\ lastShop' = ShopObs("transfer", failAt = 0, r.changes)
  /\ shopOps' = shopOps + 1
  /\ UNCHANGED mealVars

\* handleUndo of the shopping list for a pantryTransfer entry; failAt = 0 if
\* every write succeeds, otherwise the change whose write is refused
shoppingHandleUndo(failAt) ==
  /\ shopOps < MaxPantryOps
  /\ shopUndoStack # <<>>
  /\ LET last == shopUndoStack[Len(shopUndoStack)]
         popped == SubSeq(shopUndoStack, 1, Len(shopUndoStack) - 1)
         done == IF failAt = 0 THEN Len(last.changes) ELSE failAt - 1
     IN /\ failAt \in 0..Len(last.changes)
        /\ pantryDb' = undoFirst(pantryDb, last.changes, done)
        /\ pantry' = IF failAt = 0 THEN undoFirst(pantry, last.changes, done) ELSE pantry
        /\ shopUndoStack' = IF failAt = 0 THEN popped
                            ELSE LastN(Append(popped, last), UndoCap)
        /\ direct' = (direct /\ failAt # 0)
        /\ lastShop' = ShopObs("undo", failAt = 0, last.changes)
  /\ shopOps' = shopOps + 1
  /\ UNCHANGED <<mealVars, preTransferDb, preTransferLocal>>

\* ------------------------------------------------------------------ Init
NoPrefs == [r \in RecipeIds |-> "none"]


BlockedOptions == { {}, {3}, {1} }

HistoryRow(date, mealType, rid, servings) ==
  [date |-> date, meal_type |-> mealType, recipe_id |-> rid, servings |-> servings]

HistoryOptions ==
  { <<>> }
  \cup { <<HistoryRow(0 - h, "dinner", 8, 1)>> : h \in 1..(MaxCooldown + 1) }
  \cup { <<HistoryRow(-1, "dinner", 8, 0)>>,
         <<HistoryRow(-1, "breakfast", 1, 1), HistoryRow(-1, "dinner", NoRecipe, 1)>> }

\* user profiles: scoring switches, desired ingredients, pantry and preferences
ProfileOptions ==
  { [pp |-> TRUE, hard |-> FALSE, desired |-> {}, pantry |-> {1},
     prefs |-> NoPrefs],
    [pp |-> FALSE, hard |-> TRUE, desired |-> {2}, pantry |-> {},
     prefs |-> [NoPrefs EXCEPT ![2] = "favorite", ![6] = "dislike"]],
    [pp |-> TRUE, hard |-> FALSE, desired |-> {1, 2}, pantry |-> {2, 3},
     prefs |-> [NoPrefs EXCEPT ![3] = "dislike", ![9] = "dislike"]] }

InitRest ==
  /\ pc = "idle"
  /\ day = 0
  /\ cd = 0
  /\ hasBlocked = FALSE
  /\ blockedMiss = FALSE
  /\ queues = [mt \in MealTypes |-> <<>>]
  /\ usedGlobal = {}
  /\ newSlots = <<>>
  /\ planRows = <<>>
  /\ planRecord = FALSE
  /\ slots = <<>>
  /\ replacePool = EmptyPools
  /\ undoStack = <<>>
  /\ blockedToasts = 0
  /\ opCount = 0
  /\ faults = 0
  /\ lastOp = NoOp
  /\ prevOp = NoOp
  /\ lastPick = NoPick
  /\ slotsBefore = <<>>
  /\ slotsBefore2 = <<>>
  /\ dislikedByReplace = {}
  /\ offered = <<>>
  /\ drawers = [mt \in MealTypes |-> {}]
  /\ drawn = [mt \in MealTypes |-> {}]
  /\ otherEdits = FALSE
  /\ lastOffer = NoOffer
  /\ undoBefore = <<>>
  /\ blockedBefore = {}
  /\ prefsBefore = NoPrefs
  /\ swappingSlotIds = {}
  /\ pending = <<>>
  /\ prefPending = <<>>
  /\ lastStart = NoStart
  /\ shopUndoStack = <<>>
  /\ shopOps = 0
  /\ lastShop = NoShop
  /\ preTransferDb = pantryDb
  /\ preTransferLocal = pantry
  /\ direct = FALSE
  /\ undoInFlight = <<>>
  /\ undoStart = <<>>
  /\ undoNewer = <<>>

\* the pantry loaded by the page: the map holds the stored rows
InitPantry(rows) ==
  /\ pantryDb \in [PantryIngredients -> rows]
  /\ pantry = pantryDb

InitFill ==
  /\ InitPantry({NoRow})
  /\ daysCount \in 1..MaxDays
  /\ people \in 1..MaxPeople
  /\ lunchSpanDays \in 1..MaxSpan
  /\ cooldownDays \in 0..MaxCooldown
  /\ \E sc \in ProfileOptions :
       /\ selectedIngredientIds = sc.desired
       /\ useIngredientIdsHard = sc.hard
       /\ preferPantry = sc.pp
       /\ pantryIds = sc.pantry
       /\ prefs = sc.prefs
  /\ blockedIngredientIds \in BlockedOptions
  /\ history \in HistoryOptions
  /\ opLimit = MaxOps
  /\ (cooldownDays = 0 => Len(history) <= 1 /\ \A i \in 1..Len(history) : history[i].date = -1)
  /\ InitRest

NextFill ==
  \/ \E ok \in BOOLEAN : CreatePlanStart(ok)
  \/ FillBreakfast
  \/ FillLunch
  \/ FillDinner
  \/ \E ok \in BOOLEAN : CreatePlanFinish(ok)

SpecFill == InitFill /\ [][NextFill]_vars

\* the editing sessions: two-day plans for one person; in the last one two
\* breakfast cook slots share a replace pool of four recipes
EditScenarios ==
  { [span |-> 2, cd |-> 2, blocked |-> {3}, history |-> <<>>,
     prefs |-> [NoPrefs EXCEPT ![3] = "dislike", ![4] = "dislike"]],
    [span |-> 1, cd |-> 2, blocked |-> {}, history |-> <<HistoryRow(-1, "dinner", 8, 1)>>,
     prefs |-> [NoPrefs EXCEPT ![3] = "dislike", ![4] = "dislike",
                               ![7] = "dislike", ![9] = "dislike"]],
    [span |-> 1, cd |-> 0, blocked |-> {}, history |-> <<>>,
     prefs |-> [NoPrefs EXCEPT ![6] = "dislike", ![7] = "dislike", ![9] = "dislike"]] }

InitEdit(limit, rows) ==
  /\ InitPantry(rows)
  /\ daysCount = 2
  /\ people = 1
  /\ selectedIngredientIds = {}
  /\ useIngredientIdsHard = FALSE
  /\ preferPantry = TRUE
  /\ pantryIds = {1}
  /\ opLimit = limit
  /\ \E sc \in EditScenarios :
       /\ lunchSpanDays = sc.span
       /\ cooldownDays = sc.cd
       /\ blockedIngredientIds = sc.blocked
       /\ history = sc.history
       /\ prefs = sc.prefs
  /\ InitRest

Init == InitEdit(MaxOps, {NoRow})

SlotIds == 1..(3 * MaxDays)

Next ==
  \/ NextFill
  \/ \E id \in SlotIds : replaceSlot(id)
  \/ \E id \in SlotIds : dislikeAndReplace(id)
  \/ \E id \in SlotIds : toggleFavorite(id, TRUE)
  \/ \E id \in SlotIds : \E v \in {0, people} : updateServings(id, v, TRUE)
  \/ \E id \in SlotIds : \E q \in Queries : \E ok \in BOOLEAN : setSlotRecipe(id, q, ok)
  \/ \E ing \in Ingredients : \E ok \in BOOLEAN : blockIngredientFromSlot(ing, ok)
  \/ \E ok \in BOOLEAN : handleUndo(ok)

Spec == Init /\ [][Next]_vars

\* the handlers that change local state before their write, with refused writes
NextOptimistic ==
  \/ NextFill
  \/ \E id \in SlotIds : \E ok \in BOOLEAN : toggleFavorite(id, ok)
  \/ \E id \in SlotIds : \E v \in {0, people} : \E ok \in BOOLEAN : updateServings(id, v, ok)
  \/ \E ing \in Ingredients : \E ok \in BOOLEAN : blockIngredientFromSlot(ing, ok)

SpecOptimistic == Init /\ [][NextOptimistic]_vars

\* the entry points of a slot row, with the calls they start left in flight
NextSwap ==
  \/ NextFill
  \/ \E id \in SlotIds : \E entry \in {"replaceButton", "swipeLeft"} : startReplace(id, entry)
  \/ \E id \in SlotIds : \E entry \in {"dislikeButton", "swipeRight"} : startDislike(id, entry)
  \/ \E k \in 1..MaxCalls : preferenceWritten(k)
  \/ \E id \in SlotIds : \E q \in Queries : selectSearchRecipe(id, q)
  \/ \E k \in 1..MaxCalls : \E ok \in BOOLEAN : finishReplacement(k, ok)

InitSwap == InitEdit(MaxCalls, {NoRow})

SpecSwap == InitSwap /\ [][NextSwap]_vars

\* the shopping list page: transfers to the pantry and their undo
InitShopping == InitEdit(MaxOps, {NoRow, NullRow, QtyRow(1)})

NextShopping ==
  \/ \E items \in ItemLists : \E failAt \in 0..MaxPantryIngredients : transferToPantry(items, failAt)
  \/ \E failAt \in 0..MaxPantryIngredients : shoppingHandleUndo(failAt)

SpecShopping == InitShopping /\ [][NextShopping]_vars

\* plans made and edited in hard desired-ingredient mode
InitHard ==
  /\ InitPantry({NoRow})
  /\ daysCount \in 1..2
  /\ people = 1
  /\ lunchSpanDays = 1
  /\ cooldownDays \in {0, MaxCooldown}
  /\ selectedIngredientIds \in {{2}, {1, 2}}
  /\ useIngredientIdsHard = TRUE
  /\ preferPantry = FALSE
  /\ pantryIds = {}
  /\ prefs \in {NoPrefs, [NoPrefs EXCEPT ![2] = "favorite", ![6] = "dislike"]}
  /\ blockedIngredientIds \in BlockedOptions
  /\ history = <<>>
  /\ opLimit = MaxCalls
  /\ InitRest

NextHard ==
  \/ NextFill
  \/ \E id \in SlotIds : replaceSlot(id)
  \/ \E id \in SlotIds : dislikeAndReplace(id)

SpecHard == InitHard /\ [][NextHard]_vars

\* a long session on a one-day plan: the lunch is replaced and the changes are
\* undone, often enough to fill the undo stack
InitUndo ==
  /\ InitPantry({NoRow})
  /\ daysCount = 1
  /\ people = 1
  /\ lunchSpanDays = 1
  /\ cooldownDays = 0
  /\ selectedIngredientIds = {}
  /\ useIngredientIdsHard = FALSE
  /\ preferPantry = TRUE
  /\ pantryIds = {1}
  /\ opLimit = MaxUndoOps
  /\ blockedIngredientIds = {}
  /\ history = <<>>
  /\ prefs = [NoPrefs EXCEPT ![2] = "dislike", ![3] = "dislike", ![4] = "dislike",
                             ![7] = "dislike", ![9] = "dislike"]
  /\ InitRest

LunchSlotId == 2

NextUndo ==
  \/ NextFill
  \/ replaceSlot(LunchSlotId)
  \/ \E ok \in BOOLEAN : handleUndo(ok)

SpecUndo == InitUndo /\ [][NextUndo]_vars

\* the page is mounted again on the stored plan after the stored preferences were
\* changed elsewhere: preferences and slots are read from the store, the undo
\* stack and the replace pool start empty
reloadPage(p) ==
  /\ pc = "done"
  /\ opCount = 0
  /\ prefs # p
  /\ prefs' = p
  /\ slots' = WithIds(planRows)
  /\ undoStack' = <<>>
  /\ replacePool' = EmptyPools
  /\ UNCHANGED <<formVars, flightVars, swapVars, shopVars, blockedIngredientIds, cpVars, obsVars, poolObs,
                 editObs>>

\* two- and three-day plans with lunch batches of two days, made while every lunch
\* recipe and one of the two dinner recipes are disliked, or all lunch recipes but one
InitLeftover ==
  /\ InitPantry({NoRow})
  /\ daysCount \in 2..MaxDays
  /\ people = 1
  /\ lunchSpanDays = 2
  /\ cooldownDays = 0
  /\ selectedIngredientIds = {}
  /\ useIngredientIdsHard = FALSE
  /\ preferPantry = TRUE
  /\ pantryIds = {1}
  /\ prefs \in { [NoPrefs EXCEPT ![3] = "dislike", ![4] = "dislike", ![5] = "dislike",
                                 ![6] = "dislike", ![7] = "dislike", ![9] = "dislike"],
                 [NoPrefs EXCEPT ![3] = "dislike", ![4] = "dislike", ![6] = "dislike",
                                 ![7] = "dislike"] }
  /\ blockedIngredientIds = {}
  /\ history = <<>>
  /\ opLimit = MaxOps
  /\ InitRest

StoredPrefs == [NoPrefs EXCEPT ![3] = "dislike", ![4] = "dislike", ![6] = "dislike"]

NextLeftover ==
  \/ NextFill
  \/ reloadPage(StoredPrefs)
  \/ \E id \in SlotIds : replaceSlot(id)
  \/ \E id \in SlotIds : dislikeAndReplace(id)
  \/ \E id \in SlotIds : \E q \in Queries : setSlotRecipe(id, q, TRUE)
  \/ handleUndo(TRUE)

SpecLeftover == InitLeftover /\ [][NextLeftover]_vars

\* replacements in flight on a two-day plan whose breakfasts leave one breakfast
\* recipe free
InitOverlap ==
  /\ InitPantry({NoRow})
  /\ daysCount = 2
  /\ people = 1
  /\ lunchSpanDays = 1
  /\ cooldownDays \in {0, MaxCooldown}
  /\ selectedIngredientIds = {}
  /\ useIngredientIdsHard = FALSE
  /\ preferPantry \in BOOLEAN
  /\ pantryIds = {1}
  /\ prefs = [NoPrefs EXCEPT ![4] = "dislike", ![6] = "dislike"]
  /\ blockedIngredientIds = {}
  /\ history = <<>>
  /\ opLimit = MaxCalls
  /\ InitRest

NextOverlap ==
  \/ NextFill
  \/ \E id \in SlotIds : \E entry \in {"replaceButton", "swipeLeft"} : startReplace(id, entry)
  \/ \E k \in 1..MaxCalls : \E ok \in BOOLEAN : finishReplacement(k, ok)

SpecOverlap == InitOverlap /\ [][NextOverlap]_vars

\* a short session on a one- or two-day plan with two or three lunch recipes
InitUndoRace ==
  /\ InitPantry({NoRow})
  /\ daysCount \in 1..2
  /\ people = 1
  /\ lunchSpanDays = 1
  /\ cooldownDays = 0
  /\ selectedIngredientIds = {}
  /\ useIngredientIdsHard = FALSE
  /\ preferPantry = TRUE
  /\ pantryIds = {1}
  /\ opLimit = MaxOps
  /\ blockedIngredientIds = {}
  /\ history = <<>>
  /\ prefs \in { [NoPrefs EXCEPT ![2] = "dislike", ![3] = "dislike", ![4] = "dislike",
                                 ![7] = "dislike", ![9] = "dislike"],
                 [NoPrefs EXCEPT ![2] = "dislike", ![3] = "dislike", ![4] = "dislike"] }
  /\ InitRest

\* the replace button is pressed while no undo is awaited
startReplaceBeforeUndo(id) ==
  /\ undoInFlight = <<>>
  /\ startReplace(id, "replaceButton")

\* an undo awaiting its write while a replacement started before it returns
NextUndoRace ==
  \/ NextFill
  \/ \E id \in SlotIds : startReplaceBeforeUndo(id)
  \/ \E ok \in BOOLEAN : finishReplacement(1, ok)
  \/ beginUndo
  \/ \E ok \in BOOLEAN : finishUndo(ok)

SpecUndoRace == InitUndoRace /\ [][NextUndoRace]_vars

\* ============================================================ properties
\* the schedule computed by createPlan is complete
PlanComputed == pc \in {"insert", "done"}

PlanIdx == 1..Len(newSlots)

IsCook(s) == s.servings > 0
IsLeftover(s) == s.servings = 0

\* the recipes of a meal type that are neither disliked nor blocked
EligibleOfType(mealType) ==
  {r \in RecipeIds : /\ RecipeById(r).meal_type = mealType
                     /\ r \notin dislikedIds
                     /\ recipeIngSetByRecipe[r] \cap blockedIngredientIds = {}}

\* C1: in every plan produced by createPlan, every leftover slot (servings = 0)
\* holds the recipe_id (possibly null) of the nearest earlier slot of its meal
\* type with servings > 0, and no slot of that meal type with another recipe
\* lies between the two.
C1_LeftoverFollowsCook ==
  PlanComputed =>
    \A i \in PlanIdx :
      IsLeftover(newSlots[i]) =>
        \E j \in PlanIdx :
          /\ newSlots[j].meal_type = newSlots[i].meal_type
          /\ IsCook(newSlots[j])
          /\ newSlots[j].date < newSlots[i].date
          /\ newSlots[j].recipe_id = newSlots[i].recipe_id
          /\ \A k \in PlanIdx :
               (/\ newSlots[k].meal_type = newSlots[i].meal_type
                /\ newSlots[k].date > newSlots[j].date
                /\ newSlots[k].date < newSlots[i].date)
               => /\ ~IsCook(newSlots[k])
                  /\ newSlots[k].recipe_id = newSlots[i].recipe_id

C1_Witness ==
  /\ PlanComputed
  /\ \E i \in PlanIdx : IsLeftover(newSlots[i]) /\ newSlots[i].recipe_id # NoRecipe

\* C4: in every plan produced with cooldownDays = D > 0, two cook slots of the
\* same meal type fewer than D days apart never hold the same recipe; a slot
\* without an eligible alternative stays unfilled.
C4_NoRepeatWithinCooldown ==
  (PlanComputed /\ cooldownDays > 0) =>
    \A i \in PlanIdx : \A j \in PlanIdx :
      (/\ i # j
       /\ newSlots[i].meal_type = newSlots[j].meal_type
       /\ IsCook(newSlots[i]) /\ IsCook(newSlots[j])
       /\ Abs(newSlots[i].date - newSlots[j].date) < cooldownDays
       /\ newSlots[i].recipe_id # NoRecipe)
      => newSlots[i].recipe_id # newSlots[j].recipe_id

\* a slot was left unfilled next to a filled cook slot of its meal type inside the window
C4_Witness ==
  /\ PlanComputed
  /\ cooldownDays > 0
  /\ \E i \in PlanIdx : \E j \in PlanIdx :
       /\ newSlots[i].meal_type = newSlots[j].meal_type
       /\ IsCook(newSlots[i]) /\ IsCook(newSlots[j])
       /\ newSlots[i].recipe_id = NoRecipe
       /\ newSlots[j].recipe_id # NoRecipe
       /\ Abs(newSlots[i].date - newSlots[j].date) < cooldownDays
       /\ EligibleOfType(newSlots[i].meal_type) # {}

LunchAt(d) == {i \in PlanIdx : newSlots[i].meal_type = "lunch" /\ newSlots[i].date = d}

\* C6: with lunchSpanDays = N > 1 and people = P, the lunch slot of every day d
\* with d mod N = 0 is a cook slot with servings P * N (also when fewer than N
\* days remain), and the lunch slot of every other day is a leftover slot with
\* servings 0 and the recipe of the preceding cook day.
C6_LunchBatches ==
  (PlanComputed /\ lunchSpanDays > 1) =>
    \A d \in 0..(daysCount - 1) :
      /\ Cardinality(LunchAt(d)) = 1
      /\ \A i \in LunchAt(d) :
           IF d % lunchSpanDays = 0
           THEN newSlots[i].servings = people * lunchSpanDays
           ELSE /\ newSlots[i].servings = 0
                /\ \A j \in LunchAt(d - (d % lunchSpanDays)) :
                     newSlots[i].recipe_id = newSlots[j].recipe_id

\* days = 3, people = 2, lunchSpanDays = 2: lunch servings 4, 0, 4
C6_Witness ==
  /\ PlanComputed
  /\ daysCount = 3 /\ people = 2 /\ lunchSpanDays = 2
  /\ \A i \in LunchAt(0) : newSlots[i].servings = 4 /\ newSlots[i].recipe_id # NoRecipe
  /\ \A i \in LunchAt(1) : newSlots[i].servings = 0
  /\ \A i \in LunchAt(2) : newSlots[i].servings = 4

\* one blocked ingredient, contained in every dinner recipe
DinnerAllBlocked ==
  /\ Cardinality(blockedIngredientIds) = 1
  /\ \A r \in RecipeIds :
       RecipeById(r).meal_type = "dinner" => recipeIngSetByRecipe[r] \cap blockedIngredientIds # {}

\* a createPlan run has come to its end (the slots were inserted or the insert failed)
RunFinished == lastOp.kind = "createPlan"

CookSlotsOf(mealType) ==
  {i \in PlanIdx : newSlots[i].meal_type = mealType /\ IsCook(newSlots[i])}

FilledOf(mealType) == {i \in CookSlotsOf(mealType) : newSlots[i].recipe_id # NoRecipe}

\* C7: if one blocked ingredient appears in every dinner recipe, createPlan
\* leaves every dinner slot unfilled, reports the blocked condition exactly once
\* for the run, and still fills the breakfast and lunch slots (as many as there
\* are eligible recipes); the generation is not cut short.
C7_BlockedDinner ==
  (RunFinished /\ DinnerAllBlocked) =>
    /\ \A i \in PlanIdx : newSlots[i].meal_type = "dinner" => newSlots[i].recipe_id = NoRecipe
    /\ blockedToasts = 1
    /\ \A d \in 0..(daysCount - 1) : \A mt \in MealTypes :
         \E i \in PlanIdx : newSlots[i].date = d /\ newSlots[i].meal_type = mt
    /\ \A mt \in {"breakfast", "lunch"} :
         Cardinality(FilledOf(mt)) =
           Min(Cardinality(CookSlotsOf(mt)), Cardinality(EligibleOfType(mt)))

C7_Witness ==
  /\ RunFinished
  /\ DinnerAllBlocked
  /\ daysCount > 1
  /\ \A mt \in {"breakfast", "lunch"} : FilledOf(mt) = CookSlotsOf(mt)

\* the rows of the history that seed the queue of a meal type
SeedRows(mealType) ==
  {history[i] : i \in {k \in 1..Len(history) :
                         /\ history[k].meal_type = mealType
                         /\ history[k].servings > 0
                         /\ history[k].recipe_id # NoRecipe
                         /\ history[k].date < 0
                         /\ history[k].date >= 0 - cooldownDays}}

\* C8 as stated: a recipe cooked h < D days before the start is not assigned to
\* a slot of its meal type on the day indexes 0..D-h-1.
C8_Original ==
  (PlanComputed /\ cooldownDays > 0) =>
    \A i \in PlanIdx : \A row \in SeedRows(newSlots[i].meal_type) :
      (IsCook(newSlots[i]) /\ newSlots[i].date <= cooldownDays - (0 - row.date) - 1)
      => newSlots[i].recipe_id # row.recipe_id

\* C8, amended: a recipe X cooked h < D days before the start is in the cooldown
\* exclusion set of its meal type on exactly the day indexes 0..D-h-1 (unless
\* the plan itself used X), and createPlan assigns X on one of those days only
\* when every other recipe of the meal type is used, disliked, blocked or
\* cooldown-excluded as well.
C8_HistoryCooldown ==
  (lastPick.fn = "pickRecipe" /\ cooldownDays > 0) =>
    \A row \in SeedRows(lastPick.mealType) :
      LET inWindow == lastPick.day <= cooldownDays - (0 - row.date) - 1
      IN /\ inWindow => row.recipe_id \in lastPick.cooldown
         /\ (~inWindow /\ row.recipe_id \notin lastPick.used)
              => row.recipe_id \notin lastPick.cooldown
         /\ (inWindow /\ lastPick.result = row.recipe_id)
              => \A r \in RecipeIds :
                   RecipeById(r).meal_type = lastPick.mealType
                   => \/ r \in lastPick.used
                      \/ r \in lastPick.disliked
                      \/ recipeIngSetByRecipe[r] \cap lastPick.blocked # {}
                      \/ r \in lastPick.cooldown

\* the first pick after the window has ended: the recipe is no longer excluded
C8_Witness ==
  /\ lastPick.fn = "pickRecipe"
  /\ cooldownDays > 0
  /\ \E row \in SeedRows(lastPick.mealType) :
       /\ lastPick.day = cooldownDays - (0 - row.date)
       /\ 0 - row.date < cooldownDays
       /\ row.recipe_id \notin lastPick.cooldown
       /\ lastPick.result = row.recipe_id

\* ------------------------------------------------- properties of the edits
Replaced == lastOp.kind \in {"replaceSlot", "dislikeAndReplace"} /\ lastOp.ok

\* the target of the last replacement, as it was before it
TargetBefore == slotsBefore[lastOp.slot]

\* the cook slot and the contiguous run of the slots of its meal type that
\* follow it with servings 0 and the recipe the cook slot had
RunOf(before, target) ==
  {target.id} \cup
    {i \in 1..Len(before) :
       /\ before[i].meal_type = target.meal_type
       /\ before[i].date > target.date
       /\ \A k \in 1..Len(before) :
            (/\ before[k].meal_type = target.meal_type
             /\ before[k].date > target.date
             /\ before[k].date <= before[i].date)
            => before[k].servings = 0 /\ before[k].recipe_id = target.recipe_id}

\* exactly the slots of ids got the recipe rid; nothing else differs from before
OnlyRecipeChanged(before, after, ids, rid) ==
  /\ Len(after) = Len(before)
  /\ \A i \in 1..Len(before) :
       after[i] = IF i \in ids THEN [before[i] EXCEPT !.recipe_id = rid] ELSE before[i]

\* C2 as stated: for every meal type, replaceSlot changes the recipe of exactly
\* the cook slot and its trailing run of leftover slots with the old recipe.
C2_Original ==
  Replaced =>
    OnlyRecipeChanged(slotsBefore, slots, RunOf(slotsBefore, TargetBefore), lastOp.next)

\* C2, amended: replaceSlot on a lunch cook slot holding recipe A changes the
\* recipe of exactly the cook slot and of the contiguous run of following lunch
\* slots with servings 0 and recipe A; on a breakfast or dinner slot it changes
\* the recipe of the cook slot alone. The recipe and servings of every other
\* slot are unchanged.
C2_ReplaceFrame ==
  Replaced =>
    /\ lastOp.next # lastOp.prev
    /\ OnlyRecipeChanged(slotsBefore, slots,
                         IF TargetBefore.meal_type = "lunch"
                         THEN RunOf(slotsBefore, TargetBefore)
                         ELSE {lastOp.slot},
                         lastOp.next)

C2_Witness ==
  /\ Replaced
  /\ TargetBefore.meal_type = "lunch"
  /\ Cardinality(lastOp.ids) = 2
  /\ \E i \in lastOp.ids : slots[i].servings = 0 /\ slots[i].recipe_id = lastOp.next

\* a successful replaceSlot immediately followed by a successful undo
ReplacedThenUndone ==
  /\ lastOp.kind = "undoSwap" /\ lastOp.ok
  /\ prevOp.kind = "replaceSlot" /\ prevOp.ok

\* C3: a successful replaceSlot from recipe A to B immediately followed by a
\* successful undo restores A on the cook slot and on every leftover slot the
\* replacement propagated to, and leaves every other slot as it was before the
\* replacement.
C3_UndoInvertsReplace ==
  ReplacedThenUndone =>
    /\ \A i \in prevOp.ids : slots[i].recipe_id = prevOp.prev
    /\ slots = slotsBefore2

C3_Witness ==
  /\ ReplacedThenUndone
  /\ Cardinality(prevOp.ids) = 2
  /\ \A i \in prevOp.ids : slotsBefore[i].recipe_id = prevOp.next /\ slots[i].recipe_id = prevOp.prev

\* the recipes disliked through dislikeAndReplace that are still disliked
StillDisliked == dislikedByReplace \cap dislikedIds

Edited == pc = "done" /\ opCount > 0 /\ Len(slotsBefore) = Len(slots)

\* C5 as stated: after dislikeAndReplace on a slot holding R, no later step
\* puts R into a slot.
C5_Original ==
  Edited =>
    \A i \in 1..Len(slots) :
      slots[i].recipe_id \in dislikedByReplace => slotsBefore[i].recipe_id = slots[i].recipe_id

\* C5, amended: after dislikeAndReplace on a slot holding R, and for as long as
\* R stays disliked, R is not selected by replaceSlot or dislikeAndReplace, is
\* in no manual-search candidate list, and enters a slot only when an undo
\* restores the recipe a swap had replaced.
C5_DislikedNotSelected ==
  Edited =>
    /\ (lastOp.kind \in {"replaceSlot", "dislikeAndReplace", "setSlotRecipe"} /\ lastOp.ok)
         => lastOp.next \notin StillDisliked
    /\ \A i \in 1..Len(slots) : \A q \in Queries :
         SeqIds(getRecipeCandidates(slots[i], q)) \cap StillDisliked = {}
    /\ \A i \in 1..Len(slots) :
         (slots[i].recipe_id \in StillDisliked /\ slotsBefore[i].recipe_id # slots[i].recipe_id)
         => lastOp.kind = "undoSwap"

\* a later replacement for which a still disliked recipe was otherwise eligible
C5_Witness ==
  /\ Replaced
  /\ \E r \in StillDisliked :
       /\ r \in lastPick.disliked
       /\ RecipeById(r).meal_type = lastPick.mealType
       /\ r # lastPick.current
       /\ r \notin lastPick.used
       /\ r \notin lastPick.cooldown
       /\ recipeIngSetByRecipe[r] \cap lastPick.blocked = {}

Picked == lastPick.fn \in {"pickRecipe", "pickAlternativeRecipe"}

BlockedAtPick(r) == recipeIngSetByRecipe[r] \cap lastPick.blocked # {}

\* C9: every recipe returned by pickRecipe or pickAlternativeRecipe, also when
\* the fallback filter was used or the recipe comes from a replace pool built by
\* an earlier call, is not in the disliked set of the call and contains no
\* ingredient blocked as of the call.
C9_PickNeverDislikedOrBlocked ==
  (Picked /\ lastPick.result # NoRecipe) =>
    /\ lastPick.result \notin lastPick.disliked
    /\ ~BlockedAtPick(lastPick.result)

\* a replacement whose stored pool held a recipe that had become disliked or blocked
C9_Witness ==
  /\ lastPick.fn = "pickAlternativeRecipe"
  /\ lastPick.result # NoRecipe
  /\ \E i \in 1..Len(lastPick.stored) :
       \/ lastPick.stored[i] \in lastPick.disliked
       \/ BlockedAtPick(lastPick.stored[i])

OfPickedType == {r \in RecipeIds : RecipeById(r).meal_type = lastPick.mealType}

\* C10 as stated: a slot is left unfilled, or a replacement fails, only when
\* every recipe of the meal type is disliked or contains a blocked ingredient.
C10_Original ==
  (Picked /\ lastPick.result = NoRecipe) =>
    \A r \in OfPickedType : r \in lastPick.disliked \/ BlockedAtPick(r)

\* excluded by the filters the retry keeps
HardExcluded(r) ==
  \/ r \in lastPick.used
  \/ r = lastPick.current
  \/ r \in lastPick.disliked
  \/ BlockedAtPick(r)

\* C10, amended: when the fully filtered candidate set is empty, selection is
\* retried ignoring the cooldown exclusion only; a slot is left unfilled, or a
\* replacement fails, exactly when every recipe of the meal type is used by
\* another cook slot of the plan, is the current recipe of the slot, is disliked
\* or contains a blocked ingredient.
C10_FallbackDropsCooldownOnly ==
  Picked =>
    /\ (lastPick.result = NoRecipe) <=> (\A r \in OfPickedType : HardExcluded(r))
    /\ lastPick.result # NoRecipe =>
         /\ lastPick.result \in OfPickedType
         /\ ~HardExcluded(lastPick.result)
         /\ lastPick.result \in lastPick.cooldown =>
              \A r \in OfPickedType : HardExcluded(r) \/ r \in lastPick.cooldown

\* the retry was used: the recipe returned is cooldown-excluded
C10_Witness ==
  /\ Picked
  /\ lastPick.result # NoRecipe
  /\ lastPick.result \in lastPick.cooldown

\* C11: whenever a createPlan run leaves at least one slot unfilled, exactly one
\* unsatisfiable-constraints error is surfaced for the run, however many slots
\* are unfilled and also when no blocked ingredient is configured.
C11_OneErrorPerRun ==
  (RunFinished /\ \E i \in PlanIdx : newSlots[i].recipe_id = NoRecipe) => blockedToasts = 1

\* a draw from the replace pool of a meal type by the last handler call
Drew == lastOffer.slot # 0

DrewType == slots[lastOffer.slot].meal_type

\* C12 as stated: over successful replaceSlot calls with catalog and preferences
\* unchanged (no other edit), also interleaved over several slots of a meal
\* type, a slot is not given a recipe it has held before while a current
\* candidate exists that it has not held yet.
C12_Original ==
  (Drew /\ lastOp.kind = "replaceSlot" /\ lastOp.ok /\ ~otherEdits /\ 0 \notin drawers[DrewType]
        /\ lastOffer.repeat)
    => lastOffer.unseen = {}

\* C12, amended: between two reshuffles of the replace pool of a meal type no
\* recipe is drawn from it twice: the recipes returned by successive
\* pickAlternativeRecipe calls of that meal type, for whatever slots, are
\* pairwise different until the stored pool holds no current candidate and is
\* rebuilt by a shuffle of the current candidates.
C12_NoRepeatUntilReshuffle ==
  Drew => /\ ~lastOffer.again
          /\ lastOp.next \in drawn[DrewType]
          /\ lastOffer.fromStored => lastOp.next \in SeqToSet(lastPick.stored)
          /\ SeqToSet(replacePool[DrewType]) \cap drawn[DrewType] = {}

\* a second slot of the meal type draws from the pool the first one left
C12_Witness ==
  /\ Drew
  /\ lastOffer.fromStored
  /\ Cardinality(drawn[DrewType]) >= 2
  /\ Cardinality(drawers[DrewType] \ {0}) >= 2

UndoKinds == {"undoSwap", "undoBlock"}

\* the toast a handler raises at its end
toastOf(op) ==
  CASE op.kind \in {"replaceSlot", "dislikeAndReplace"} -> IF op.ok THEN "success" ELSE "error"
    [] op.kind = "setSlotRecipe" -> IF op.ok THEN "success" ELSE "error"
    [] op.kind = "blockIngredient" -> IF op.ok THEN "success" ELSE "error"
    [] op.kind \in UndoKinds -> IF op.ok THEN "success" ELSE "error"
    [] OTHER -> "none"

FailedUndo == lastOp.kind \in UndoKinds /\ ~lastOp.ok

Front(s) == SubSeq(s, 1, Len(s) - 1)
Top(s) == s[Len(s)]
Pushed == lastOp.kind = "replaceSlot" /\ lastOp.ok
Undone == lastOp.kind \in UndoKinds /\ lastOp.ok

\* C14: the undo stack never holds more than 30 entries; a push onto a full
\* stack discards the oldest entry and keeps the 30 most recent ones in their
\* order, with the new entry on top; an undo takes the most recently pushed
\* entry that is still on the stack and leaves the ones below it.
C14_UndoStackBounded ==
  /\ Len(undoStack) <= UndoCap
  /\ Pushed =>
       /\ undoStack # <<>>
       /\ Top(undoStack).type = "swap"
       /\ Top(undoStack).prevRecipeId = lastOp.prev
       /\ Top(undoStack).nextRecipeId = lastOp.next
       /\ SeqToSet(Top(undoStack).slotIds) = lastOp.ids
       /\ Front(undoStack) = IF Len(undoBefore) = UndoCap THEN Tail(undoBefore) ELSE undoBefore
  /\ Undone =>
       /\ undoBefore # <<>>
       /\ undoStack = Front(undoBefore)
       /\ SeqToSet(Top(undoBefore).slotIds) = lastOp.ids
       /\ Top(undoBefore).prevRecipeId = lastOp.next
       /\ Top(undoBefore).nextRecipeId = lastOp.prev
       /\ lastOp.kind = "undoSwap" => \A id \in lastOp.ids : SlotById(id).recipe_id = lastOp.next

\* thirty-one changes were pushed, the last one onto the full stack, and the
\* undo that follows takes that last one
C14_Witness ==
  /\ Undone
  /\ prevOp.kind = "replaceSlot" /\ prevOp.ok
  /\ opCount = UndoCap + 2
  /\ faults = 0
  /\ Len(undoBefore) = UndoCap
  /\ undoBefore[1] # undoBefore[2]
  /\ Top(undoBefore).nextRecipeId = prevOp.next

RecipeChangeKinds == {"replaceSlot", "dislikeAndReplace", "setSlotRecipe"}

\* the write of a chosen recipe was refused by the store
FailedRecipeWrite == lastOp.kind \in RecipeChangeKinds /\ ~lastOp.ok /\ lastOp.next # NoRecipe

\* C15: when the persistence write of replaceSlot or of the manual
\* setSlotRecipe fails, the local slot list is as before the call, no undo
\* entry is pushed and the failure is reported.
C15_FailedWriteLeavesPlan ==
  FailedRecipeWrite =>
    /\ slots = slotsBefore
    /\ undoStack = undoBefore
    /\ toastOf(lastOp) = "error"

\* a manual choice is refused after a replacement had been stored
C15_Witness ==
  /\ FailedRecipeWrite
  /\ lastOp.kind = "setSlotRecipe"
  /\ prevOp.kind = "replaceSlot" /\ prevOp.ok
  /\ undoStack # <<>>
  /\ SlotById(lastOp.slot).recipe_id = lastOp.prev

\* C16: createPlan writes the slots in a single batch insert issued after the
\* whole schedule has been computed: while the schedule is being computed no
\* slot is stored, the stored rows are never a proper part of the computed
\* slots, and when the batch insert fails none of them is stored.
C16_SlotsStoredAllOrNone ==
  /\ planRows \in {<<>>, newSlots}
  /\ pc \in {"breakfast", "lunch", "dinner", "insert"} => planRows = <<>>
  /\ planRows # <<>> => /\ Len(planRows) = 3 * daysCount
                        /\ pc = "done"
  /\ (lastOp.kind = "createPlan" /\ ~lastOp.ok) => planRows = <<>>
  /\ (lastOp.kind = "createPlan" /\ lastOp.ok) => planRows = newSlots

\* the insert of a computed schedule of at least two days was refused
C16_Witness ==
  /\ lastOp.kind = "createPlan" /\ ~lastOp.ok
  /\ Len(newSlots) >= 6
  /\ planRows = <<>>

OptimisticKinds == {"toggleFavorite", "updateServings", "blockIngredient"}

\* C17: for every handler that changes local state before its write completes
\* (setPreference, updateServings, blockIngredientFromSlot), a refused write
\* leaves the preference map, the slot servings and the blocked-ingredient set
\* at their values before the call.
C17_FailedWriteRestores ==
  (lastOp.kind \in OptimisticKinds /\ ~lastOp.ok) =>
    /\ prefs = prefsBefore
    /\ slots = slotsBefore
    /\ blockedIngredientIds = blockedBefore

\* the replacement calls in flight for a slot
InFlight(id) == {k \in 1..Len(pending) : pending[k].slot.id = id}

\* C18: while a replacement of a slot is in flight (its id is in
\* swappingSlotIds) no entry point of the slot row (replace button, dislike
\* button, swipe to the left or right, choice in the search panel) starts a
\* second replaceSlot or setSlotRecipe for that slot; at most one replacement
\* per slot is in flight at any time.
C18_OneReplacementPerSlot ==
  /\ ~lastStart.wasSwapping
  /\ \A id \in SlotIds : Cardinality(InFlight(id)) <= 1

\* the slots whose recipe the last handler call changed
UpdatedIds == {i \in 1..Len(slots) : slots[i].recipe_id # slotsBefore[i].recipe_id}

\* C19: every successful mutating action pushes exactly one undo entry: each
\* successful recipe change of a slot (replaceSlot, dislikeAndReplace, manual
\* setSlotRecipe, also when the slot was unfilled before) pushes one swap entry
\* that lists all updated slot ids, and each successful ingredient block pushes
\* one block-ingredient entry.
C19_EverySuccessPushesOne ==
  /\ (lastOp.kind \in RecipeChangeKinds /\ lastOp.ok) =>
       /\ undoStack # <<>>
       /\ Front(undoStack) = undoBefore
       /\ Top(undoStack).type = "swap"
       /\ SeqToSet(Top(undoStack).slotIds) = UpdatedIds
       /\ Top(undoStack).prevRecipeId = lastOp.prev
       /\ Top(undoStack).nextRecipeId = lastOp.next
  /\ (lastOp.kind = "blockIngredient" /\ lastOp.ok) =>
       /\ undoStack # <<>>
       /\ Front(undoStack) = undoBefore
       /\ Top(undoStack).type = "blockIngredient"
       /\ blockedIngredientIds = blockedBefore \cup {Top(undoStack).ingredientId}
       /\ Top(undoStack).ingredientId \notin blockedBefore

RowBefore(c) ==
  IF c.hadRowBefore THEN (IF c.prevIsNull THEN NullRow ELSE QtyRow(c.prevQty)) ELSE NoRow

ChangedIngredients(changes) == {changes[k].ingredientId : k \in 1..Len(changes)}

PantryUndone == lastShop.kind = "undo" /\ lastShop.ok

\* C20: the undo of a pantry-transfer entry sets, for each recorded ingredient,
\* the pantry quantity back to the recorded previous quantity if a row existed
\* before the transfer and deletes the row otherwise, in the store and in the
\* pantry map, and leaves the other ingredients alone; a successful transfer
\* followed by a successful undo leaves the stored pantry equal to its content
\* before the transfer (and the pantry map too, if it agreed with the store
\* before the transfer), also when earlier attempts of that undo failed part-way.
C20_UndoRestoresPantry ==
  PantryUndone =>
    /\ \A k \in 1..Len(lastShop.changes) :
         LET c == lastShop.changes[k]
         IN /\ pantryDb[c.ingredientId] = RowBefore(c)
            /\ pantry[c.ingredientId] = RowBefore(c)
    /\ \A i \in PantryIngredients \ ChangedIngredients(lastShop.changes) :
         /\ pantryDb[i] = lastShop.dbBefore[i]
         /\ pantry[i] = lastShop.localBefore[i]
    /\ lastShop.direct => /\ pantryDb = preTransferDb
                          /\ preTransferLocal = preTransferDb => pantry = preTransferDb

\* two ingredients were transferred, one with a row before and one without; a
\* first undo failed after its first write, the second undo succeeded
C20_Witness ==
  /\ PantryUndone
  /\ lastShop.direct
  /\ lastShop.retry
  /\ Len(lastShop.changes) = 2
  /\ \E k \in 1..2 : lastShop.changes[k].hadRowBefore
  /\ \E k \in 1..2 : ~lastShop.changes[k].hadRowBefore
  /\ pantryDb = preTransferDb
  /\ pantry = preTransferDb

SlotsAt(d, mt) == {i \in PlanIdx : newSlots[i].date = d /\ newSlots[i].meal_type = mt}

\* C21: createPlan produces exactly one slot for every (date, meal type) pair
\* of the days of the plan: 3 * days slots, no key missing and none twice, also
\* when the last lunch batch is cut short by the end of the plan.
C21_OneSlotPerKey ==
  PlanComputed =>
    /\ Len(newSlots) = 3 * daysCount
    /\ \A i \in PlanIdx : newSlots[i].date \in 0..(daysCount - 1)
    /\ \A d \in 0..(daysCount - 1) : \A mt \in MealTypes : Cardinality(SlotsAt(d, mt)) = 1

\* a plan of three days with lunches for two days: the batch cooked on the last
\* day has no leftover day
C21_Witness ==
  /\ PlanComputed
  /\ daysCount = 3
  /\ lunchSpanDays = 2
  /\ \E i \in SlotsAt(2, "lunch") : newSlots[i].servings = 2 * people
  /\ \E i \in SlotsAt(1, "lunch") : newSlots[i].servings = 0

\* the recipes a pick could choose from with hard mode off, from its recorded arguments
PickAllowed(p, withCooldown) ==
  {r \in RecipeIds :
     /\ \E i \in 1..Len(recipes) : recipes[i].id = r /\ recipes[i].meal_type = p.mealType
     /\ r # p.current
     /\ r \notin p.used
     /\ r \notin p.disliked
     /\ withCooldown => r \notin p.cooldown
     /\ recipeIngSetByRecipe[r] \cap p.blocked = {}}

PickBase(p) == IF PickAllowed(p, TRUE) = {} THEN PickAllowed(p, FALSE) ELSE PickAllowed(p, TRUE)

HardMode == useIngredientIdsHard /\ desiredIdsSet # {}

\* C22: hard desired-ingredient mode never makes a pick fail: pickRecipe and
\* pickAlternativeRecipe return no recipe only when no recipe is eligible with
\* hard mode off, and when at least one eligible recipe contains all desired
\* ingredients the recipe chosen in hard mode contains all of them.
C22_HardModeNeverUnfills ==
  lastPick.fn # "none" =>
    /\ lastPick.result = NoRecipe <=> PickBase(lastPick) = {}
    /\ lastPick.result # NoRecipe => lastPick.result \in PickBase(lastPick)
    /\ (HardMode /\ \E r \in PickBase(lastPick) : recipeHasAllDesired(r, desiredIdsSet))
         => recipeHasAllDesired(lastPick.result, desiredIdsSet)

\* a replacement in hard mode for which no eligible recipe has all desired
\* ingredients: the restriction is ignored and a recipe is found
C22_Witness ==
  /\ HardMode
  /\ lastPick.fn = "pickAlternativeRecipe"
  /\ PickBase(lastPick) # {}
  /\ \A r \in PickBase(lastPick) : ~recipeHasAllDesired(r, desiredIdsSet)
  /\ lastPick.result # NoRecipe
  /\ lastOp.ok

\* the nearest earlier cook slot of the meal type of slot i
CookOf(i) ==
  {j \in 1..Len(slots) :
     /\ slots[j].meal_type = slots[i].meal_type
     /\ IsCook(slots[j])
     /\ slots[j].date < slots[i].date
     /\ \A k \in 1..Len(slots) :
          (/\ slots[k].meal_type = slots[i].meal_type
           /\ IsCook(slots[k])
           /\ slots[k].date < slots[i].date) => slots[k].date <= slots[j].date}

\* C23: after any sequence of replaceSlot, dislikeAndReplace, manual setSlotRecipe
\* and undo, every leftover slot holds the recipe_id of its originating cook slot,
\* also when the cook slot was unfilled and is then filled by manual selection;
\* and no replacement or selection acts on a leftover slot.
C23_LeftoversFollowEdits ==
  pc = "done" =>
    /\ \A i \in 1..Len(slots) :
         IsLeftover(slots[i]) =>
           \E j \in CookOf(i) : slots[j].recipe_id = slots[i].recipe_id
    /\ (lastOp.kind \in RecipeChangeKinds /\ lastOp.slot \in 1..Len(slotsBefore))
         => IsCook(slotsBefore[lastOp.slot])

\* the recipes cooked for a meal type in the rows of a plan on a day other than
\* day j and fewer than cooldownDays days from it
CookedNear(rows, mealType, j) ==
  IF cooldownDays <= 0 THEN {}
  ELSE {rows[i].recipe_id : i \in {k \in 1..Len(rows) :
                                     /\ rows[k].meal_type = mealType
                                     /\ rows[k].servings > 0
                                     /\ rows[k].recipe_id # NoRecipe
                                     /\ rows[k].date # j
                                     /\ Abs(rows[k].date - j) < cooldownDays}}

\* the recipes cooked for a meal type before the start of the plan, fewer than
\* cooldownDays days from day j
HistoryNear(mealType, j) ==
  IF cooldownDays <= 0 THEN {}
  ELSE {row.recipe_id : row \in {h \in SeedRows(mealType) : Abs(h.date - j) < cooldownDays}}

\* the last pick was made by the fill loop of the current run of createPlan
FillPicked == lastPick.fn = "pickRecipe" /\ newSlots # <<>>

\* the last handler was a replacement, which scanned the slots for its pick
ScanPicked ==
  lastPick.fn = "pickAlternativeRecipe" /\ lastOp.kind \in {"replaceSlot", "dislikeAndReplace"}

\* C24 as stated: the fill queue at day j and the slot scan for a slot of day j
\* both exclude exactly the recipes cooked for the meal type, in the plan or
\* before its start, on another day fewer than cooldownDays days from j.
C24_Original ==
  /\ FillPicked =>
       lastPick.cooldown = CookedNear(newSlots, lastPick.mealType, lastPick.day)
                             \cup HistoryNear(lastPick.mealType, lastPick.day)
  /\ ScanPicked =>
       lastPick.cooldown = CookedNear(slotsBefore, lastPick.mealType, lastPick.day)
                             \cup HistoryNear(lastPick.mealType, lastPick.day)

\* C24, amended: the fill queue at day j excludes exactly the recipes cooked for
\* the meal type on an earlier day of the plan or of the history before its start,
\* fewer than cooldownDays days from j; the slot scan for a slot of day j excludes
\* exactly the recipes of the other cook slots of the plan of that meal type fewer
\* than cooldownDays days from j, on both sides of j, and none of the history;
\* both exclude nothing when cooldownDays <= 0.
C24_SameWindow ==
  /\ FillPicked =>
       lastPick.cooldown = CookedNear(newSlots, lastPick.mealType, lastPick.day)
                             \cup HistoryNear(lastPick.mealType, lastPick.day)
  /\ ScanPicked =>
       lastPick.cooldown = CookedNear(slotsBefore, lastPick.mealType, lastPick.day)
  /\ cooldownDays <= 0 => lastPick.cooldown = {}

\* a replacement whose exclusion set holds the recipe of a later cook slot
C24_Witness ==
  /\ ScanPicked
  /\ \E i \in 1..Len(slotsBefore) :
       /\ slotsBefore[i].meal_type = lastPick.mealType
       /\ slotsBefore[i].servings > 0
       /\ slotsBefore[i].date > lastPick.day
       /\ slotsBefore[i].recipe_id # NoRecipe
       /\ slotsBefore[i].recipe_id \in lastPick.cooldown

\* the positions of two cook slots of a list of rows that hold the same recipe
SharedRecipe(rows) ==
  {p \in (1..Len(rows)) \X (1..Len(rows)) :
     /\ p[1] < p[2]
     /\ rows[p[1]].servings > 0
     /\ rows[p[2]].servings > 0
     /\ rows[p[1]].recipe_id # NoRecipe
     /\ rows[p[1]].recipe_id = rows[p[2]].recipe_id}

\* C25: in the plan produced by createPlan, and after any sequence of replaceSlot,
\* dislikeAndReplace, manual setSlotRecipe and undo, no recipe id is held by two
\* cook slots.
C25_GlobalExclusive ==
  /\ PlanComputed => SharedRecipe(newSlots) = {}
  /\ pc = "done" => SharedRecipe(slots) = {}

\* the last two handlers to finish were successful replaceSlot calls for two
\* different cook slots of one meal type
TwoReplaced ==
  /\ lastOp.kind = "replaceSlot" /\ lastOp.ok
  /\ prevOp.kind = "replaceSlot" /\ prevOp.ok
  /\ lastOp.slot # prevOp.slot
  /\ slots[lastOp.slot].meal_type = slots[prevOp.slot].meal_type

\* C26: when replaceSlot calls for two different cook slots of one meal type
\* are in flight at once, the two slots never end up holding the same recipe.
C26_OverlappingReplacementsDiffer ==
  TwoReplaced => slots[lastOp.slot].recipe_id # slots[prevOp.slot].recipe_id

\* C27: if another operation pushes an entry while the inverse write of an undo
\* is awaited and that write then fails, no entry is lost and the entries stay in
\* the order in which their actions were performed: the stack is the stack from
\* before the undo followed by the entries pushed since.
C27_FailedUndoKeepsOrder ==
  (FailedUndo /\ undoInFlight = <<>> /\ undoNewer # <<>>) => undoStack = undoStart \o undoNewer

\* C28: in replaceSlot the cooldown exclusion set is a subset of the global-usage
\* exclusion set plus the slot's current recipe, so the retry filter of
\* pickAlternativeRecipe yields exactly the candidates of the strict filter, and
\* a replacement whose strict candidate set is empty fails.
C28_FallbackAddsNothing ==
  ScanPicked =>
    /\ lastPick.cooldown \subseteq lastPick.used \cup {lastPick.current}
    /\ PickAllowed(lastPick, FALSE) = PickAllowed(lastPick, TRUE)
    /\ PickAllowed(lastPick, TRUE) = {} => (lastPick.result = NoRecipe /\ ~lastOp.ok)

\* a replacement with a recipe in its cooldown set and no candidate: it fails
C28_Witness ==
  /\ ScanPicked
  /\ lastPick.cooldown # {}
  /\ PickAllowed(lastPick, TRUE) = {}
  /\ lastPick.result = NoRecipe

\* createPlan is not running
PlanSettled == pc \in {"idle", "done"}

\* C29: createPlan is all-or-nothing for the plan as a whole: the plan record
\* and all slots are stored, or neither is; a refused slot batch insert does not
\* leave a stored plan record without slots.
C29_PlanAllOrNothing ==
  PlanSettled => (planRecord <=> planRows # <<>>)

\* the last call was a transfer that changed pantry quantities
TransferChanged == lastShop.kind = "transfer" /\ lastShop.changes # <<>>

\* C30: every pantry quantity change made by transferAllToPantry is covered by an
\* undo entry: also when the transfer of a later item fails, the changes already
\* made are rolled back or recorded in the pantry-transfer entry on top of the
\* undo stack.
C30_TransferChangesCovered ==
  TransferChanged =>
    \/ pantryDb = lastShop.dbBefore
    \/ /\ shopUndoStack # <<>>
       /\ shopUndoStack[Len(shopUndoStack)].type = "pantryTransfer"
       /\ shopUndoStack[Len(shopUndoStack)].changes = lastShop.changes

====
